---- MODULE Spec2Model ----
(***************************************************************************)
(* Model of the cmsis_dsp crate: the FFT engine wrappers of                *)
(* src/transform.rs, the length validation of src/lib.rs and src/basic.rs  *)
(* and the elementwise vector operations built on it.                      *)
(*                                                                         *)
(* The native CMSIS-DSP kernels are external.  A kernel invocation is      *)
(* recorded symbolically: the function called and the arguments it was     *)
(* given are appended to the history of every buffer it writes.            *)
(***************************************************************************)
EXTENDS Integers, Sequences, FiniteSets, TLC

VARIABLES engine, call, outcome, ret, trace, bufs

vars == <<engine, call, outcome, ret, trace, bufs>>

(***************************************************************************)
(* Bounds of the model.                                                    *)
(***************************************************************************)
\* constructor sizes tried: 0, 5000 and 2^e - SizeSlack .. 2^e + SizeSlack for e <= MaxSizeExp
MaxSizeExp == 13
SizeSlack == 1
\* buffer lengths tried around an engine size S: S - LenSlack .. S + LenSlack
LenSlack == 1
\* multiples of 2^16 added to a length: 0 .. MaxWrap, and 2^16 of them (2^32)
MaxWrap == 1
\* lengths of the slices handed to the vector operations: 0..MaxLen (+ wraps)
MaxLen == 2
\* execution contexts sharing one engine
NumContexts == 2
\* elements of the slices whose contents are followed: 0 .. MaxVec
MaxVec == 3
\* how many times an in-place operation is applied to one slice
MaxApply == 2

(***************************************************************************)
(* Integers.  A usize (64 bits on a host, 32 on the targets) does not fit  *)
(* the checker's integers, so a usize or u32 value n is the record         *)
(* [q |-> n \div 2^16, l |-> n % 2^16]; a u16 value is a plain number.     *)
(***************************************************************************)
W16 == 65536

USize(q, l) == [q |-> q, l |-> l]

\* the usize / u32 value of a small number
Wide(n) == USize(n \div W16, n % W16)

\* the number a usize stands for equals the small number n
WideIs(w, n) == w.q = n \div W16 /\ w.l = n % W16

\* usize::try_into::<u16>(): Err when the value exceeds u16::MAX
TryIntoU16Wrapping(w) == [ok |-> TRUE, v |-> w.l]
TryIntoU16(w) == IF w.q = 0 THEN [ok |-> TRUE, v |-> w.l] ELSE [ok |-> FALSE, v |-> 0]

\* usize::try_into::<u32>(): Err when the value exceeds u32::MAX
TryIntoU32Wrapping(w) == [ok |-> TRUE, v |-> USize(w.q % W16, w.l)]
TryIntoU32(w) == IF w.q < W16 THEN [ok |-> TRUE, v |-> w] ELSE [ok |-> FALSE, v |-> Wide(0)]

Pow2(e) == 2 ^ e

WrapSet == (0 .. MaxWrap) \cup {W16}

\* u16 sizes offered to the constructors
SizeCandidates ==
  {0, 17, 5000} \cup
  { s \in 0 .. (W16 - 1) :
      \E e \in 0 .. MaxSizeExp : \E d \in 0 .. SizeSlack : s = Pow2(e) + d \/ s = Pow2(e) - d }

\* u32 sizes offered to the fixed-point real constructors
SizeCandidates32 == { USize(q, l) : q \in 0 .. 1, l \in SizeCandidates }

\* buffer lengths offered to run on an engine of size S
LensAround(S) ==
  { USize(q, l) : q \in WrapSet, l \in { x \in (S - LenSlack) .. (S + LenSlack) : x >= 0 } }

(***************************************************************************)
(* Enumerations of src/transform.rs and src/lib.rs.                        *)
(***************************************************************************)
Direction == {"Forward", "Inverse"}
OutputOrder == {"Raw", "Standard"}

\* `direction as _`
DirectionFlag(d) == IF d = "Forward" THEN 0 ELSE 1
\* `output_order as _`
OutputOrderFlag(o) == IF o = "Raw" THEN 0 ELSE 1

Error == {"Argument", "Length", "SizeMismatch", "NanInf", "Singular", "TestFailure", "Unknown"}

ArmStatus ==
  {"ARM_MATH_SUCCESS", "ARM_MATH_ARGUMENT_ERROR", "ARM_MATH_LENGTH_ERROR",
   "ARM_MATH_SIZE_MISMATCH", "ARM_MATH_NANINF", "ARM_MATH_SINGULAR",
   "ARM_MATH_TEST_FAILURE", "ARM_MATH_OTHER"}

Ok(v) == [v |-> v, kind |-> "Ok", err |-> "none"]
Err(e) == [v |-> [kind |-> "None"], kind |-> "Err", err |-> e]
Unit == [kind |-> "Unit"]
None == [kind |-> "None"]

\* (variant: a code that is none of the named ones counts as success)
check_status_OtherIsOk(status) ==
  CASE status = "ARM_MATH_ARGUMENT_ERROR" -> Err("Argument")
    [] status = "ARM_MATH_LENGTH_ERROR" -> Err("Length")
    [] status = "ARM_MATH_NANINF" -> Err("NanInf")
    [] status = "ARM_MATH_SINGULAR" -> Err("Singular")
    [] status = "ARM_MATH_SIZE_MISMATCH" -> Err("SizeMismatch")
    [] status = "ARM_MATH_TEST_FAILURE" -> Err("TestFailure")
    [] OTHER -> Ok(Unit)

\* StatusCode::check_status
check_status(status) ==
  CASE status = "ARM_MATH_SUCCESS" -> Ok(Unit)
    [] status = "ARM_MATH_ARGUMENT_ERROR" -> Err("Argument")
    [] status = "ARM_MATH_LENGTH_ERROR" -> Err("Length")
    [] status = "ARM_MATH_NANINF" -> Err("NanInf")
    [] status = "ARM_MATH_SINGULAR" -> Err("Singular")
    [] status = "ARM_MATH_SIZE_MISMATCH" -> Err("SizeMismatch")
    [] status = "ARM_MATH_TEST_FAILURE" -> Err("TestFailure")
    [] OTHER -> Err("Unknown")

(***************************************************************************)
(* Buffers.  A slice is its length and the history of the kernel           *)
(* invocations that wrote it; a fresh slice has an empty history.          *)
(***************************************************************************)
Fresh(len) == [len |-> len, hist |-> <<>>]

Written(buf, k) == [buf EXCEPT !.hist = Append(@, k)]

\* events of a call, in program order
EvCheck(size, count, ok) == [ok |-> ok, size |-> size, count |-> count, ev |-> "check"]
EvNative(k) == [k |-> k, ev |-> "native"]

NativeEvents(t) == { i \in 1 .. Len(t) : t[i].ev = "native" }
CheckEvents(t) == { i \in 1 .. Len(t) : t[i].ev = "check" }

\* the result of a handler: how it ended, what it returned, what it did, the buffers after
Done(o, r, t, b) == [outcome |-> o, ret |-> r, trace |-> t, bufs |-> b]

(***************************************************************************)
(* check_fft_size<N>, instantiated at N = u16 (fftLen, fftLenRFFT) and at  *)
(* N = u32 (fftLenReal).  TRUE when it returns, FALSE when it panics.      *)
(***************************************************************************)
\* (variant: `value_count as u16`, which wraps instead of failing)
check_fft_size_u16_Wrapping(size, value_count) ==
  LET c == TryIntoU16Wrapping(value_count)
  IN c.ok /\ size = c.v

check_fft_size_u16(size, value_count) ==
  LET c == TryIntoU16(value_count)
  IN c.ok /\ size = c.v

check_fft_size_u32(size, value_count) ==
  LET c == TryIntoU32(value_count)
  IN c.ok /\ size = c.v

(***************************************************************************)
(* Complex FFT engines.                                                    *)
(***************************************************************************)
\* the static coefficient table cmsis_dsp_sys::arm_cfft_sR_<repr>_len<n>
arm_cfft_sR(repr, n) == [kind |-> "arm_cfft_sR", repr |-> repr, fftLen |-> n]

\* (variant: the match arm for 16 is missing)
FloatFft_new_Without16(size) ==
  LET instance ==
        CASE
             size = 32 -> arm_cfft_sR("f32", 32)
          [] size = 64 -> arm_cfft_sR("f32", 64)
          [] size = 128 -> arm_cfft_sR("f32", 128)
          [] size = 256 -> arm_cfft_sR("f32", 256)
          [] size = 512 -> arm_cfft_sR("f32", 512)
          [] size = 1024 -> arm_cfft_sR("f32", 1024)
          [] size = 2048 -> arm_cfft_sR("f32", 2048)
          [] size = 4096 -> arm_cfft_sR("f32", 4096)
          [] OTHER -> None
  IN IF instance = None
       THEN Err("Argument")
       ELSE Ok([kind |-> "FloatFft", instance |-> instance])

FloatFft_new(size) ==
  LET instance ==
        CASE
             size = 16 -> arm_cfft_sR("f32", 16)
          [] size = 32 -> arm_cfft_sR("f32", 32)
          [] size = 64 -> arm_cfft_sR("f32", 64)
          [] size = 128 -> arm_cfft_sR("f32", 128)
          [] size = 256 -> arm_cfft_sR("f32", 256)
          [] size = 512 -> arm_cfft_sR("f32", 512)
          [] size = 1024 -> arm_cfft_sR("f32", 1024)
          [] size = 2048 -> arm_cfft_sR("f32", 2048)
          [] size = 4096 -> arm_cfft_sR("f32", 4096)
          [] OTHER -> None
  IN IF instance = None
       THEN Err("Argument")
       ELSE Ok([kind |-> "FloatFft", instance |-> instance])

\* (variant: the arm for 32 names the q31 table of that size)
Q15Fft_new_OtherRepresentation(size, direction, output_order) ==
  LET instance ==
        CASE
             size = 16 -> arm_cfft_sR("q15", 16)
          [] size = 32 -> arm_cfft_sR("q31", 32)
          [] size = 64 -> arm_cfft_sR("q15", 64)
          [] size = 128 -> arm_cfft_sR("q15", 128)
          [] size = 256 -> arm_cfft_sR("q15", 256)
          [] size = 512 -> arm_cfft_sR("q15", 512)
          [] size = 1024 -> arm_cfft_sR("q15", 1024)
          [] size = 2048 -> arm_cfft_sR("q15", 2048)
          [] size = 4096 -> arm_cfft_sR("q15", 4096)
          [] OTHER -> None
  IN IF instance = None
       THEN Err("Argument")
       ELSE Ok([kind |-> "Q15Fft", instance |-> instance,
                direction |-> direction, output_order |-> output_order])

Q15Fft_new(size, direction, output_order) ==
  LET instance ==
        CASE
             size = 16 -> arm_cfft_sR("q15", 16)
          [] size = 32 -> arm_cfft_sR("q15", 32)
          [] size = 64 -> arm_cfft_sR("q15", 64)
          [] size = 128 -> arm_cfft_sR("q15", 128)
          [] size = 256 -> arm_cfft_sR("q15", 256)
          [] size = 512 -> arm_cfft_sR("q15", 512)
          [] size = 1024 -> arm_cfft_sR("q15", 1024)
          [] size = 2048 -> arm_cfft_sR("q15", 2048)
          [] size = 4096 -> arm_cfft_sR("q15", 4096)
          [] OTHER -> None
  IN IF instance = None
       THEN Err("Argument")
       ELSE Ok([kind |-> "Q15Fft", instance |-> instance,
                direction |-> direction, output_order |-> output_order])

Q31Fft_new(size) ==
  LET instance ==
        CASE
             size = 16 -> arm_cfft_sR("q31", 16)
          [] size = 32 -> arm_cfft_sR("q31", 32)
          [] size = 64 -> arm_cfft_sR("q31", 64)
          [] size = 128 -> arm_cfft_sR("q31", 128)
          [] size = 256 -> arm_cfft_sR("q31", 256)
          [] size = 512 -> arm_cfft_sR("q31", 512)
          [] size = 1024 -> arm_cfft_sR("q31", 1024)
          [] size = 2048 -> arm_cfft_sR("q31", 2048)
          [] size = 4096 -> arm_cfft_sR("q31", 4096)
          [] OTHER -> None
  IN IF instance = None
       THEN Err("Argument")
       ELSE Ok([kind |-> "Q31Fft", instance |-> instance])

\* the arguments of one arm_cfft_<repr> invocation
CfftCall(fn, S, direction, output_order) ==
  [S |-> S, fn |-> fn, ifftFlag |-> DirectionFlag(direction),
   bitReverseFlag |-> OutputOrderFlag(output_order)]

\* (variant: the two flags are handed to the kernel in the other order)
FloatFft_run_SwappedFlags(self, data, direction, output_order) ==
  LET ok == check_fft_size_u16(self.instance.fftLen, data.len)
      t1 == <<EvCheck(Wide(self.instance.fftLen), data.len, ok)>>
      k == [S |-> self.instance, fn |-> "arm_cfft_f32",
            ifftFlag |-> OutputOrderFlag(output_order),
            bitReverseFlag |-> DirectionFlag(direction)]
  IN IF ~ok
       THEN Done("panic", None, t1, [data |-> data])
       ELSE Done("ok", Unit, t1 \o <<EvNative(k)>>, [data |-> Written(data, k)])

FloatFft_run(self, data, direction, output_order) ==
  LET ok == check_fft_size_u16(self.instance.fftLen, data.len)
      t1 == <<EvCheck(Wide(self.instance.fftLen), data.len, ok)>>
      k == CfftCall("arm_cfft_f32", self.instance, direction, output_order)
  IN IF ~ok
       THEN Done("panic", None, t1, [data |-> data])
       ELSE Done("ok", Unit, t1 \o <<EvNative(k)>>, [data |-> Written(data, k)])

\* (variant: the kernel is given the default output order)
Q15Fft_run_DefaultOrder(self, data) ==
  LET ok == check_fft_size_u16(self.instance.fftLen, data.len)
      t1 == <<EvCheck(Wide(self.instance.fftLen), data.len, ok)>>
      k == CfftCall("arm_cfft_q15", self.instance, self.direction, "Standard")
  IN IF ~ok
       THEN Done("panic", None, t1, [data |-> data])
       ELSE Done("ok", Unit, t1 \o <<EvNative(k)>>, [data |-> Written(data, k)])

Q15Fft_run(self, data) ==
  LET ok == check_fft_size_u16(self.instance.fftLen, data.len)
      t1 == <<EvCheck(Wide(self.instance.fftLen), data.len, ok)>>
      k == CfftCall("arm_cfft_q15", self.instance, self.direction, self.output_order)
  IN IF ~ok
       THEN Done("panic", None, t1, [data |-> data])
       ELSE Done("ok", Unit, t1 \o <<EvNative(k)>>, [data |-> Written(data, k)])

\* (variant: the kernel is invoked before the length is checked)
Q31Fft_run_CheckAfter(self, data, direction, output_order) ==
  LET ok == check_fft_size_u16(self.instance.fftLen, data.len)
      k == CfftCall("arm_cfft_q31", self.instance, direction, output_order)
      t1 == <<EvNative(k), EvCheck(Wide(self.instance.fftLen), data.len, ok)>>
  IN IF ~ok
       THEN Done("panic", None, t1, [data |-> Written(data, k)])
       ELSE Done("ok", Unit, t1, [data |-> Written(data, k)])

Q31Fft_run(self, data, direction, output_order) ==
  LET ok == check_fft_size_u16(self.instance.fftLen, data.len)
      t1 == <<EvCheck(Wide(self.instance.fftLen), data.len, ok)>>
      k == CfftCall("arm_cfft_q31", self.instance, direction, output_order)
  IN IF ~ok
       THEN Done("panic", None, t1, [data |-> data])
       ELSE Done("ok", Unit, t1 \o <<EvNative(k)>>, [data |-> Written(data, k)])

(***************************************************************************)
(* What arm_cfft_* leaves in the buffer.  The kernels are not part of the  *)
(* crate: the butterflies leave bin number i of the transform, which the   *)
(* table and ifftFlag decide, at the bit-reversed index, and with          *)
(* bitReverseFlag = 1 a bit-reversal pass then brings every bin to its own *)
(* index.                                                                  *)
(***************************************************************************)
\* the low e bits of i in reverse order
RECURSIVE BitReverse(_, _)
BitReverse(i, e) ==
  IF e = 0 THEN 0 ELSE (i % 2) * (2 ^ (e - 1)) + BitReverse(i \div 2, e - 1)

\* the number of index bits of a transform of n points
Log2(n) == CHOOSE e \in 0 .. MaxSizeExp : 2 ^ e = n

\* the value at index i of the buffer after the kernel invocation k
arm_cfft_output(k, i) ==
  [S |-> k.S, ifftFlag |-> k.ifftFlag,
   bin |-> IF k.bitReverseFlag = 1 THEN i ELSE BitReverse(i, Log2(k.S.fftLen))]

(***************************************************************************)
(* Fixed-size transforms: float_fft_128 and fft on an array type that      *)
(* implements FftBuffer.  The array type fixes the length, so there is no  *)
(* length check; every impl names its own table.                           *)
(***************************************************************************)
FftBufferSizes == {16, 32, 64, 128, 256, 512, 1024, 2048, 4096}

float_fft_128(data, direction, output_order) ==
  LET k == CfftCall("arm_cfft_f32", arm_cfft_sR("f32", 128), direction, output_order)
  IN Done("ok", Unit, <<EvNative(k)>>, [data |-> Written(data, k)])

\* (variant: the impl for [Complex32; 64] names the table of length 32)
FftBuffer_run_fft_WrongTable(self, direction, output_order) ==
  LET table == CASE WideIs(self.len, 16) -> arm_cfft_sR("f32", 16)
                 [] WideIs(self.len, 32) -> arm_cfft_sR("f32", 32)
                 [] WideIs(self.len, 64) -> arm_cfft_sR("f32", 32)
                 [] WideIs(self.len, 128) -> arm_cfft_sR("f32", 128)
                 [] WideIs(self.len, 256) -> arm_cfft_sR("f32", 256)
                 [] WideIs(self.len, 512) -> arm_cfft_sR("f32", 512)
                 [] WideIs(self.len, 1024) -> arm_cfft_sR("f32", 1024)
                 [] WideIs(self.len, 2048) -> arm_cfft_sR("f32", 2048)
                 [] WideIs(self.len, 4096) -> arm_cfft_sR("f32", 4096)
      k == CfftCall("arm_cfft_f32", table, direction, output_order)
  IN Done("ok", Unit, <<EvNative(k)>>, [data |-> Written(self, k)])

\* FftBuffer::run_fft, one impl for each array type [Complex32; N]
FftBuffer_run_fft(self, direction, output_order) ==
  LET table == CASE WideIs(self.len, 16) -> arm_cfft_sR("f32", 16)
                 [] WideIs(self.len, 32) -> arm_cfft_sR("f32", 32)
                 [] WideIs(self.len, 64) -> arm_cfft_sR("f32", 64)
                 [] WideIs(self.len, 128) -> arm_cfft_sR("f32", 128)
                 [] WideIs(self.len, 256) -> arm_cfft_sR("f32", 256)
                 [] WideIs(self.len, 512) -> arm_cfft_sR("f32", 512)
                 [] WideIs(self.len, 1024) -> arm_cfft_sR("f32", 1024)
                 [] WideIs(self.len, 2048) -> arm_cfft_sR("f32", 2048)
                 [] WideIs(self.len, 4096) -> arm_cfft_sR("f32", 4096)
      k == CfftCall("arm_cfft_f32", table, direction, output_order)
  IN Done("ok", Unit, <<EvNative(k)>>, [data |-> Written(self, k)])

fft(data, direction, output_order) == FftBuffer_run_fft(data, direction, output_order)

(***************************************************************************)
(* Real FFT engines.  The instance structure is filled by the native init  *)
(* routine, which is not part of the crate: it accepts the sizes the        *)
(* constructors document as valid and reports ARM_MATH_ARGUMENT_ERROR for   *)
(* any other, leaving the instance uninitialized.  The float instance is    *)
(* later handed to its kernel as a mutable pointer, so like a buffer it     *)
(* carries the history of the kernel writes to it, empty after init.        *)
(***************************************************************************)
RealSizes == {32, 64, 128, 256, 512, 1024, 2048, 4096}

Uninit == [kind |-> "Uninit"]

arm_rfft_fast_init_f32(fftLen) ==
  IF fftLen \in RealSizes
    THEN [S |-> [hist |-> <<>>, fftLenRFFT |-> fftLen], status |-> "ARM_MATH_SUCCESS"]
    ELSE [S |-> Uninit, status |-> "ARM_MATH_ARGUMENT_ERROR"]

arm_rfft_init_q15(fftLenReal, ifftFlagR, bitReverseFlag) ==
  IF fftLenReal.q = 0 /\ fftLenReal.l \in RealSizes
    THEN [S |-> [fftLenReal |-> fftLenReal, ifftFlagR |-> ifftFlagR,
                 bitReverseFlagR |-> bitReverseFlag],
          status |-> "ARM_MATH_SUCCESS"]
    ELSE [S |-> Uninit, status |-> "ARM_MATH_ARGUMENT_ERROR"]

arm_rfft_init_q31(fftLenReal, ifftFlagR, bitReverseFlag) ==
  IF fftLenReal.q = 0 /\ fftLenReal.l \in RealSizes
    THEN [S |-> [fftLenReal |-> fftLenReal, ifftFlagR |-> ifftFlagR,
                 bitReverseFlagR |-> bitReverseFlag],
          status |-> "ARM_MATH_SUCCESS"]
    ELSE [S |-> Uninit, status |-> "ARM_MATH_ARGUMENT_ERROR"]

\* (variant: the status of the init routine is not checked)
FloatRealFft_new_IgnoringStatus(size) ==
  LET init == arm_rfft_fast_init_f32(size)
  IN Ok([kind |-> "FloatRealFft", inst |-> init.S])

FloatRealFft_new(size) ==
  LET init == arm_rfft_fast_init_f32(size)
      st == check_status(init.status)
  IN IF st.kind = "Err"
       THEN Err(st.err)
       ELSE Ok([kind |-> "FloatRealFft", inst |-> init.S])

Q15RealFft_new(size, direction, output_order) ==
  LET init == arm_rfft_init_q15(size, DirectionFlag(direction), OutputOrderFlag(output_order))
      st == check_status(init.status)
  IN IF st.kind = "Err"
       THEN Err(st.err)
       ELSE Ok([kind |-> "Q15RealFft", inst |-> init.S])

\* (variant: the status of the init routine is not checked)
Q31RealFft_new_IgnoringStatus(size, direction, output_order) ==
  LET init == arm_rfft_init_q31(size, DirectionFlag(direction), OutputOrderFlag(output_order))
  IN Ok([kind |-> "Q31RealFft", inst |-> init.S])

Q31RealFft_new(size, direction, output_order) ==
  LET init == arm_rfft_init_q31(size, DirectionFlag(direction), OutputOrderFlag(output_order))
      st == check_status(init.status)
  IN IF st.kind = "Err"
       THEN Err(st.err)
       ELSE Ok([kind |-> "Q31RealFft", inst |-> init.S])

(***************************************************************************)
(* The real kernels take the input as a mutable pointer                    *)
(* (`input.as_ptr() as *mut _`): whether the kernel writes through it is   *)
(* not decided by the crate, so it is the choice w of each invocation.     *)
(***************************************************************************)
FloatRealFft_run_inner(self, input, output, direction, w) ==
  LET ok1 == check_fft_size_u16(self.inst.fftLenRFFT, input.len)
      ok2 == check_fft_size_u16(self.inst.fftLenRFFT, output.len)
      t1 == <<EvCheck(Wide(self.inst.fftLenRFFT), input.len, ok1)>>
      t2 == t1 \o <<EvCheck(Wide(self.inst.fftLenRFFT), output.len, ok2)>>
      k == [S |-> self.inst, fn |-> "arm_rfft_fast_f32", ifftFlag |-> DirectionFlag(direction)]
  IN IF ~ok1
       THEN Done("panic", None, t1, [input |-> input, output |-> output])
       ELSE IF ~ok2
         THEN Done("panic", None, t2, [input |-> input, output |-> output])
         ELSE Done("ok", Unit, t2 \o <<EvNative(k)>>,
                   [input |-> IF w THEN Written(input, k) ELSE input,
                    output |-> Written(output, k)])

\* the instance after run_inner ended as d: the kernel is given
\* `&self.0 as *const _ as *mut _`, and ws says whether it wrote through it
FloatRealFft_self_after(self, d, ws) ==
  IF d.outcome = "ok" /\ ws
    THEN [self EXCEPT !.inst.hist = <<"arm_rfft_fast_f32">>]
    ELSE self

FloatRealFft_run(self, input, output, w) ==
  FloatRealFft_run_inner(self, input, output, "Forward", w)

\* (variant: run_inverse asks for the forward transform)
FloatRealFft_run_inverse_Forward(self, input, output, w) ==
  FloatRealFft_run_inner(self, input, output, "Forward", w)

FloatRealFft_run_inverse(self, input, output, w) ==
  FloatRealFft_run_inner(self, input, output, "Inverse", w)

\* (variant: only the input length is checked)
Q15RealFft_run_InputOnly(self, input, output, w) ==
  LET ok1 == check_fft_size_u32(self.inst.fftLenReal, input.len)
      t1 == <<EvCheck(self.inst.fftLenReal, input.len, ok1)>>
      k == [S |-> self.inst, fn |-> "arm_rfft_q15"]
  IN IF ~ok1
       THEN Done("panic", None, t1, [input |-> input, output |-> output])
       ELSE Done("ok", Unit, t1 \o <<EvNative(k)>>,
                 [input |-> IF w THEN Written(input, k) ELSE input,
                  output |-> Written(output, k)])

Q15RealFft_run(self, input, output, w) ==
  LET ok1 == check_fft_size_u32(self.inst.fftLenReal, input.len)
      ok2 == check_fft_size_u32(self.inst.fftLenReal, output.len)
      t1 == <<EvCheck(self.inst.fftLenReal, input.len, ok1)>>
      t2 == t1 \o <<EvCheck(self.inst.fftLenReal, output.len, ok2)>>
      k == [S |-> self.inst, fn |-> "arm_rfft_q15"]
  IN IF ~ok1
       THEN Done("panic", None, t1, [input |-> input, output |-> output])
       ELSE IF ~ok2
         THEN Done("panic", None, t2, [input |-> input, output |-> output])
         ELSE Done("ok", Unit, t2 \o <<EvNative(k)>>,
                   [input |-> IF w THEN Written(input, k) ELSE input,
                    output |-> Written(output, k)])

Q31RealFft_run(self, input, output, w) ==
  LET ok1 == check_fft_size_u32(self.inst.fftLenReal, input.len)
      ok2 == check_fft_size_u32(self.inst.fftLenReal, output.len)
      t1 == <<EvCheck(self.inst.fftLenReal, input.len, ok1)>>
      t2 == t1 \o <<EvCheck(self.inst.fftLenReal, output.len, ok2)>>
      k == [S |-> self.inst, fn |-> "arm_rfft_q31"]
  IN IF ~ok1
       THEN Done("panic", None, t1, [input |-> input, output |-> output])
       ELSE IF ~ok2
         THEN Done("panic", None, t2, [input |-> input, output |-> output])
         ELSE Done("ok", Unit, t2 \o <<EvNative(k)>>,
                   [input |-> IF w THEN Written(input, k) ELSE input,
                    output |-> Written(output, k)])

(***************************************************************************)
(* The program: a caller constructs an engine and runs it on fresh         *)
(* buffers.  engine is the engine the caller holds (None before the first  *)
(* construction and after a failed one); call is the last call with its    *)
(* arguments as they were before it; outcome, ret, trace and bufs are how  *)
(* it ended, what it returned, what it did and the buffers after it.       *)
(* The model follows one engine: the constructors are tried until one      *)
(* succeeds, and the engine is then run any number of times, until a run   *)
(* panics.                                                                 *)
(***************************************************************************)
Init ==
  /\ engine = None
  /\ call = [op |-> "none"]
  /\ outcome = "none"
  /\ ret = None
  /\ trace = <<>>
  /\ bufs = [x \in {} |-> None]

\* a constructor returned r
Constructed(c, r) ==
  /\ outcome # "panic"
  /\ call' = c
  /\ engine' = (IF r.kind = "Ok" THEN r.v ELSE None)
  /\ outcome' = (IF r.kind = "Ok" THEN "ok" ELSE "err")
  /\ ret' = r
  /\ trace' = <<>>
  /\ bufs' = [x \in {} |-> None]

\* a run on the engine ended as d and left the engine as self; a panic
\* ends the program
RanWith(c, d, self) ==
  /\ outcome # "panic"
  /\ call' = c
  /\ outcome' = d.outcome
  /\ ret' = d.ret
  /\ trace' = d.trace
  /\ bufs' = d.bufs
  /\ engine' = self

\* a run that hands the kernel nothing of the engine but const pointers
Ran(c, d) == RanWith(c, d, engine)

NewFloatFft ==
  /\ engine = None
  /\ \E size \in SizeCandidates :
    Constructed([size |-> Wide(size), op |-> "FloatFft::new"], FloatFft_new(size))

NewQ15Fft ==
  /\ engine = None
  /\ \E size \in SizeCandidates, direction \in Direction, output_order \in OutputOrder :
    Constructed([size |-> Wide(size), direction |-> direction,
                 output_order |-> output_order, op |-> "Q15Fft::new"],
                Q15Fft_new(size, direction, output_order))

NewQ31Fft ==
  /\ engine = None
  /\ \E size \in SizeCandidates :
    Constructed([size |-> Wide(size), op |-> "Q31Fft::new"], Q31Fft_new(size))

NewFloatRealFft ==
  /\ engine = None
  /\ \E size \in SizeCandidates :
    Constructed([size |-> Wide(size), op |-> "FloatRealFft::new"], FloatRealFft_new(size))

NewQ15RealFft ==
  /\ engine = None
  /\ \E size \in SizeCandidates32, direction \in Direction, output_order \in OutputOrder :
    Constructed([size |-> size, direction |-> direction,
                 output_order |-> output_order, op |-> "Q15RealFft::new"],
                Q15RealFft_new(size, direction, output_order))

NewQ31RealFft ==
  /\ engine = None
  /\ \E size \in SizeCandidates32, direction \in Direction, output_order \in OutputOrder :
    Constructed([size |-> size, direction |-> direction,
                 output_order |-> output_order, op |-> "Q31RealFft::new"],
                Q31RealFft_new(size, direction, output_order))

RunFloatFft ==
  /\ engine.kind = "FloatFft"
  /\ \E len \in LensAround(engine.instance.fftLen),
        direction \in Direction, output_order \in OutputOrder :
       Ran([bufs |-> [data |-> Fresh(len)], direction |-> direction,
            output_order |-> output_order, op |-> "FloatFft::run"],
           FloatFft_run(engine, Fresh(len), direction, output_order))

RunQ15Fft ==
  /\ engine.kind = "Q15Fft"
  /\ \E len \in LensAround(engine.instance.fftLen) :
       Ran([bufs |-> [data |-> Fresh(len)], op |-> "Q15Fft::run"],
           Q15Fft_run(engine, Fresh(len)))

RunQ31Fft ==
  /\ engine.kind = "Q31Fft"
  /\ \E len \in LensAround(engine.instance.fftLen),
        direction \in Direction, output_order \in OutputOrder :
       Ran([bufs |-> [data |-> Fresh(len)], direction |-> direction,
            output_order |-> output_order, op |-> "Q31Fft::run"],
           Q31Fft_run(engine, Fresh(len), direction, output_order))

RunFloatRealFft ==
  /\ engine.kind = "FloatRealFft"
  /\ \E ilen \in LensAround(engine.inst.fftLenRFFT),
        olen \in LensAround(engine.inst.fftLenRFFT), w \in BOOLEAN, ws \in BOOLEAN :
       LET d == FloatRealFft_run(engine, Fresh(ilen), Fresh(olen), w)
       IN RanWith([bufs |-> [input |-> Fresh(ilen), output |-> Fresh(olen)],
                   op |-> "FloatRealFft::run"],
                  d, FloatRealFft_self_after(engine, d, ws))

RunInverseFloatRealFft ==
  /\ engine.kind = "FloatRealFft"
  /\ \E ilen \in LensAround(engine.inst.fftLenRFFT),
        olen \in LensAround(engine.inst.fftLenRFFT), w \in BOOLEAN, ws \in BOOLEAN :
       LET d == FloatRealFft_run_inverse(engine, Fresh(ilen), Fresh(olen), w)
       IN RanWith([bufs |-> [input |-> Fresh(ilen), output |-> Fresh(olen)],
                   op |-> "FloatRealFft::run_inverse"],
                  d, FloatRealFft_self_after(engine, d, ws))

RunQ15RealFft ==
  /\ engine.kind = "Q15RealFft"
  /\ \E ilen \in LensAround(engine.inst.fftLenReal.l),
        olen \in LensAround(engine.inst.fftLenReal.l), w \in BOOLEAN :
       Ran([bufs |-> [input |-> Fresh(ilen), output |-> Fresh(olen)],
            op |-> "Q15RealFft::run"],
           Q15RealFft_run(engine, Fresh(ilen), Fresh(olen), w))

RunQ31RealFft ==
  /\ engine.kind = "Q31RealFft"
  /\ \E ilen \in LensAround(engine.inst.fftLenReal.l),
        olen \in LensAround(engine.inst.fftLenReal.l), w \in BOOLEAN :
       Ran([bufs |-> [input |-> Fresh(ilen), output |-> Fresh(olen)],
            op |-> "Q31RealFft::run"],
           Q31RealFft_run(engine, Fresh(ilen), Fresh(olen), w))

CallFloatFft128 ==
  \E direction \in Direction, output_order \in OutputOrder :
    Ran([bufs |-> [data |-> Fresh(Wide(128))], direction |-> direction,
         output_order |-> output_order, op |-> "float_fft_128"],
        float_fft_128(Fresh(Wide(128)), direction, output_order))

CallFft ==
  \E N \in FftBufferSizes, direction \in Direction, output_order \in OutputOrder :
    Ran([bufs |-> [data |-> Fresh(Wide(N))], direction |-> direction,
         output_order |-> output_order, op |-> "fft"],
        fft(Fresh(Wide(N)), direction, output_order))

Next ==
  \/ NewFloatFft
  \/ NewQ15Fft
  \/ NewQ31Fft
  \/ NewFloatRealFft
  \/ NewQ15RealFft
  \/ NewQ31RealFft
  \/ RunFloatFft
  \/ RunQ15Fft
  \/ RunQ31Fft
  \/ RunFloatRealFft
  \/ RunInverseFloatRealFft
  \/ RunQ15RealFft
  \/ RunQ31RealFft
  \/ CallFloatFft128
  \/ CallFft

Spec == Init /\ [][Next]_vars

(***************************************************************************)
(* Two execution contexts sharing one engine.  Every context makes one     *)
(* call of run (or run_inverse) on the shared engine with buffers of its   *)
(* own.  A call is two steps, the length checks and then the kernel        *)
(* invocation, and the steps of the contexts interleave.  Here call,       *)
(* outcome, trace and bufs are per context, and ret[p] is the result the   *)
(* call of p has when it runs alone on the engine as it was when the call  *)
(* began.                                                                  *)
(***************************************************************************)
Contexts == 1 .. NumContexts

EnginesBuilt ==
  { r.v : r \in { x \in
      {FloatFft_new(size) : size \in SizeCandidates}
        \cup {Q15Fft_new(size, direction, output_order) :
                size \in SizeCandidates, direction \in Direction, output_order \in OutputOrder}
        \cup {Q31Fft_new(size) : size \in SizeCandidates}
        \cup {FloatRealFft_new(size) : size \in SizeCandidates}
        \cup {Q15RealFft_new(size, direction, output_order) :
                size \in SizeCandidates32, direction \in Direction, output_order \in OutputOrder}
        \cup {Q31RealFft_new(size, direction, output_order) :
                size \in SizeCandidates32, direction \in Direction, output_order \in OutputOrder}
      : x.kind = "Ok" } }

ConcLens(S) == {Wide(S), Wide(S + LenSlack)}

\* the calls a context can make on the engine self, with fresh buffers
RunCalls(self) ==
  CASE self.kind = "FloatFft" ->
         { [bufs |-> [data |-> Fresh(len)], direction |-> direction,
            output_order |-> output_order, op |-> "FloatFft::run"] :
           len \in ConcLens(self.instance.fftLen),
           direction \in Direction, output_order \in OutputOrder }
    [] self.kind = "Q15Fft" ->
         { [bufs |-> [data |-> Fresh(len)], op |-> "Q15Fft::run"] :
           len \in ConcLens(self.instance.fftLen) }
    [] self.kind = "Q31Fft" ->
         { [bufs |-> [data |-> Fresh(len)], direction |-> direction,
            output_order |-> output_order, op |-> "Q31Fft::run"] :
           len \in ConcLens(self.instance.fftLen),
           direction \in Direction, output_order \in OutputOrder }
    [] self.kind = "FloatRealFft" ->
         { [bufs |-> [input |-> Fresh(ilen), output |-> Fresh(olen)], op |-> op] :
           ilen \in ConcLens(self.inst.fftLenRFFT),
           olen \in ConcLens(self.inst.fftLenRFFT),
           op \in {"FloatRealFft::run", "FloatRealFft::run_inverse"} }
    [] self.kind = "Q15RealFft" ->
         { [bufs |-> [input |-> Fresh(ilen), output |-> Fresh(olen)],
            op |-> "Q15RealFft::run"] :
           ilen \in ConcLens(self.inst.fftLenReal.l),
           olen \in ConcLens(self.inst.fftLenReal.l) }
    [] self.kind = "Q31RealFft" ->
         { [bufs |-> [input |-> Fresh(ilen), output |-> Fresh(olen)],
            op |-> "Q31RealFft::run"] :
           ilen \in ConcLens(self.inst.fftLenReal.l),
           olen \in ConcLens(self.inst.fftLenReal.l) }

\* the call c made on the engine self; w: the kernel writes the input
RunOn(self, c, w) ==
  CASE c.op = "FloatFft::run" ->
         FloatFft_run(self, c.bufs.data, c.direction, c.output_order)
    [] c.op = "Q15Fft::run" -> Q15Fft_run(self, c.bufs.data)
    [] c.op = "Q31Fft::run" ->
         Q31Fft_run(self, c.bufs.data, c.direction, c.output_order)
    [] c.op = "FloatRealFft::run" ->
         FloatRealFft_run(self, c.bufs.input, c.bufs.output, w)
    [] c.op = "FloatRealFft::run_inverse" ->
         FloatRealFft_run_inverse(self, c.bufs.input, c.bufs.output, w)
    [] c.op = "Q15RealFft::run" ->
         Q15RealFft_run(self, c.bufs.input, c.bufs.output, w)
    [] c.op = "Q31RealFft::run" ->
         Q31RealFft_run(self, c.bufs.input, c.bufs.output, w)

\* the engine after the call c on self ended as d; ws: the kernel writes
\* the instance it was given as a mutable pointer
SelfAfter(self, c, d, ws) ==
  IF self.kind = "FloatRealFft"
    THEN FloatRealFft_self_after(self, d, ws)
    ELSE self

InitConc ==
  /\ engine \in EnginesBuilt
  /\ call = [p \in Contexts |-> [op |-> "none"]]
  /\ outcome = [p \in Contexts |-> "none"]
  /\ ret = [p \in Contexts |-> None]
  /\ trace = [p \in Contexts |-> <<>>]
  /\ bufs = [p \in Contexts |-> [x \in {} |-> None]]

\* context p enters run: the length checks, which panic or let it go on
Begin(p) ==
  /\ outcome[p] = "none"
  /\ \E c \in RunCalls(engine) :
       LET d == RunOn(engine, c, FALSE)
           checks == { i \in 1 .. Len(d.trace) : d.trace[i].ev = "check" }
       IN /\ call' = [call EXCEPT ![p] = c]
          /\ ret' = [ret EXCEPT ![p] = d]
          /\ outcome' = [outcome EXCEPT ![p] = IF d.outcome = "panic" THEN "panic" ELSE "checked"]
          /\ trace' = [trace EXCEPT ![p] = SubSeq(d.trace, 1, Cardinality(checks))]
          /\ bufs' = [bufs EXCEPT ![p] = c.bufs]
  /\ UNCHANGED engine

\* the kernel invocation of context p, on the engine as it is now
Native(p) ==
  /\ outcome[p] = "checked"
  /\ \E w \in BOOLEAN, ws \in BOOLEAN :
       LET d == RunOn(engine, call[p], w)
       IN /\ outcome' = [outcome EXCEPT ![p] = d.outcome]
          /\ trace' = [trace EXCEPT ![p] = d.trace]
          /\ bufs' = [bufs EXCEPT ![p] = d.bufs]
          /\ engine' = SelfAfter(engine, call[p], d, ws)
  /\ UNCHANGED <<call, ret>>

ContextBegins == \E p \in Contexts : Begin(p)

ContextKernel == \E p \in Contexts : Native(p)

NextConc ==
  \/ ContextBegins
  \/ ContextKernel

SpecConc == InitConc /\ [][NextConc]_vars

(***************************************************************************)
(* Length validation (src/basic.rs, and its copy in src/lib.rs that        *)
(* src/complex.rs uses).  lengths is the tuple of slice lengths.           *)
(***************************************************************************)
\* (variant: the triple compares its first two elements only)
Lengths_assert_lengths_equal_FirstTwo(lengths) ==
  CASE Len(lengths) = 1 -> TRUE
    [] Len(lengths) = 2 -> lengths[1] = lengths[2]
    [] Len(lengths) = 3 -> lengths[1] = lengths[2]

Lengths_assert_lengths_equal(lengths) ==
  CASE Len(lengths) = 1 -> TRUE
    [] Len(lengths) = 2 -> lengths[1] = lengths[2]
    [] Len(lengths) = 3 -> lengths[1] = lengths[2] /\ lengths[2] = lengths[3]

Lengths_length(lengths) == lengths[1]

\* (variant: `length() as u32`, which truncates instead of failing)
check_length_Truncating(lengths) ==
  IF ~Lengths_assert_lengths_equal(lengths)
    THEN [ok |-> FALSE, v |-> Wide(0)]
    ELSE TryIntoU32Wrapping(Lengths_length(lengths))

\* ok is FALSE when check_length panics; v is the u32 it returns otherwise
check_length(lengths) ==
  IF ~Lengths_assert_lengths_equal(lengths)
    THEN [ok |-> FALSE, v |-> Wide(0)]
    ELSE TryIntoU32(Lengths_length(lengths))

crate_Lengths_assert_lengths_equal(lengths) ==
  CASE Len(lengths) = 1 -> TRUE
    [] Len(lengths) = 2 -> lengths[1] = lengths[2]
    [] Len(lengths) = 3 -> lengths[1] = lengths[2] /\ lengths[2] = lengths[3]

crate_Lengths_length(lengths) == lengths[1]

crate_check_length(lengths) ==
  IF ~crate_Lengths_assert_lengths_equal(lengths)
    THEN [ok |-> FALSE, v |-> Wide(0)]
    ELSE TryIntoU32(crate_Lengths_length(lengths))

EvLength(lengths, c) == [ok |-> c.ok, v |-> c.v, ev |-> "check_length", lengths |-> lengths]

\* the arguments of one elementwise kernel invocation
VecCall(fn, n) == [fn |-> fn, blockSize |-> n]

(***************************************************************************)
(* Elementwise vector operations (src/basic.rs) and complex magnitude      *)
(* (src/complex.rs).                                                       *)
(***************************************************************************)
abs_f32(src, dst) ==
  LET length == check_length(<<src.len, dst.len>>)
      t1 == <<EvLength(<<src.len, dst.len>>, length)>>
      k == VecCall("arm_abs_f32", length.v)
  IN IF ~length.ok
       THEN Done("panic", None, t1, [src |-> src, dst |-> dst])
       ELSE Done("ok", Unit, t1 \o <<EvNative(k)>>, [src |-> src, dst |-> Written(dst, k)])

abs_q31(src, dst) ==
  LET length == check_length(<<src.len, dst.len>>)
      t1 == <<EvLength(<<src.len, dst.len>>, length)>>
      k == VecCall("arm_abs_q31", length.v)
  IN IF ~length.ok
       THEN Done("panic", None, t1, [src |-> src, dst |-> dst])
       ELSE Done("ok", Unit, t1 \o <<EvNative(k)>>, [src |-> src, dst |-> Written(dst, k)])

abs_q15(src, dst) ==
  LET length == check_length(<<src.len, dst.len>>)
      t1 == <<EvLength(<<src.len, dst.len>>, length)>>
      k == VecCall("arm_abs_q15", length.v)
  IN IF ~length.ok
       THEN Done("panic", None, t1, [src |-> src, dst |-> dst])
       ELSE Done("ok", Unit, t1 \o <<EvNative(k)>>, [src |-> src, dst |-> Written(dst, k)])

abs_q7(src, dst) ==
  LET length == check_length(<<src.len, dst.len>>)
      t1 == <<EvLength(<<src.len, dst.len>>, length)>>
      k == VecCall("arm_abs_q7", length.v)
  IN IF ~length.ok
       THEN Done("panic", None, t1, [src |-> src, dst |-> dst])
       ELSE Done("ok", Unit, t1 \o <<EvNative(k)>>, [src |-> src, dst |-> Written(dst, k)])

abs_in_place_f32(values) ==
  LET length == check_length(<<values.len>>)
      t1 == <<EvLength(<<values.len>>, length)>>
      k == VecCall("arm_abs_f32", length.v)
  IN IF ~length.ok
       THEN Done("panic", None, t1, [values |-> values])
       ELSE Done("ok", Unit, t1 \o <<EvNative(k)>>, [values |-> Written(values, k)])

\* (variant: the values are handed to the kernel of the narrower type)
abs_in_place_q31_NarrowKernel(values) ==
  LET length == check_length(<<values.len>>)
      t1 == <<EvLength(<<values.len>>, length)>>
      k == VecCall("arm_abs_q15", length.v)
  IN IF ~length.ok
       THEN Done("panic", None, t1, [values |-> values])
       ELSE Done("ok", Unit, t1 \o <<EvNative(k)>>, [values |-> Written(values, k)])

abs_in_place_q31(values) ==
  LET length == check_length(<<values.len>>)
      t1 == <<EvLength(<<values.len>>, length)>>
      k == VecCall("arm_abs_q31", length.v)
  IN IF ~length.ok
       THEN Done("panic", None, t1, [values |-> values])
       ELSE Done("ok", Unit, t1 \o <<EvNative(k)>>, [values |-> Written(values, k)])

abs_in_place_q15(values) ==
  LET length == check_length(<<values.len>>)
      t1 == <<EvLength(<<values.len>>, length)>>
      k == VecCall("arm_abs_q15", length.v)
  IN IF ~length.ok
       THEN Done("panic", None, t1, [values |-> values])
       ELSE Done("ok", Unit, t1 \o <<EvNative(k)>>, [values |-> Written(values, k)])

abs_in_place_q7(values) ==
  LET length == check_length(<<values.len>>)
      t1 == <<EvLength(<<values.len>>, length)>>
      k == VecCall("arm_abs_q7", length.v)
  IN IF ~length.ok
       THEN Done("panic", None, t1, [values |-> values])
       ELSE Done("ok", Unit, t1 \o <<EvNative(k)>>, [values |-> Written(values, k)])

add_f32(src1, src2, dst) ==
  LET length == check_length(<<src1.len, src2.len, dst.len>>)
      t1 == <<EvLength(<<src1.len, src2.len, dst.len>>, length)>>
      k == VecCall("arm_add_f32", length.v)
  IN IF ~length.ok
       THEN Done("panic", None, t1, [dst |-> dst, src1 |-> src1, src2 |-> src2])
       ELSE Done("ok", Unit, t1 \o <<EvNative(k)>>,
                 [dst |-> Written(dst, k), src1 |-> src1, src2 |-> src2])

\* (variant: the kernel for Q1.15 elements is invoked)
add_q31_NarrowKernel(src1, src2, dst) ==
  LET length == check_length(<<src1.len, src2.len, dst.len>>)
      t1 == <<EvLength(<<src1.len, src2.len, dst.len>>, length)>>
      k == VecCall("arm_add_q15", length.v)
  IN IF ~length.ok
       THEN Done("panic", None, t1, [dst |-> dst, src1 |-> src1, src2 |-> src2])
       ELSE Done("ok", Unit, t1 \o <<EvNative(k)>>,
                 [dst |-> Written(dst, k), src1 |-> src1, src2 |-> src2])

add_q31(src1, src2, dst) ==
  LET length == check_length(<<src1.len, src2.len, dst.len>>)
      t1 == <<EvLength(<<src1.len, src2.len, dst.len>>, length)>>
      k == VecCall("arm_add_q31", length.v)
  IN IF ~length.ok
       THEN Done("panic", None, t1, [dst |-> dst, src1 |-> src1, src2 |-> src2])
       ELSE Done("ok", Unit, t1 \o <<EvNative(k)>>,
                 [dst |-> Written(dst, k), src1 |-> src1, src2 |-> src2])

add_q15(src1, src2, dst) ==
  LET length == check_length(<<src1.len, src2.len, dst.len>>)
      t1 == <<EvLength(<<src1.len, src2.len, dst.len>>, length)>>
      k == VecCall("arm_add_q15", length.v)
  IN IF ~length.ok
       THEN Done("panic", None, t1, [dst |-> dst, src1 |-> src1, src2 |-> src2])
       ELSE Done("ok", Unit, t1 \o <<EvNative(k)>>,
                 [dst |-> Written(dst, k), src1 |-> src1, src2 |-> src2])

add_q7(src1, src2, dst) ==
  LET length == check_length(<<src1.len, src2.len, dst.len>>)
      t1 == <<EvLength(<<src1.len, src2.len, dst.len>>, length)>>
      k == VecCall("arm_add_q7", length.v)
  IN IF ~length.ok
       THEN Done("panic", None, t1, [dst |-> dst, src1 |-> src1, src2 |-> src2])
       ELSE Done("ok", Unit, t1 \o <<EvNative(k)>>,
                 [dst |-> Written(dst, k), src1 |-> src1, src2 |-> src2])

multiply_f32(src1, src2, dst) ==
  LET length == check_length(<<src1.len, src2.len, dst.len>>)
      t1 == <<EvLength(<<src1.len, src2.len, dst.len>>, length)>>
      k == VecCall("arm_mult_f32", length.v)
  IN IF ~length.ok
       THEN Done("panic", None, t1, [dst |-> dst, src1 |-> src1, src2 |-> src2])
       ELSE Done("ok", Unit, t1 \o <<EvNative(k)>>,
                 [dst |-> Written(dst, k), src1 |-> src1, src2 |-> src2])

multiply_q31(src1, src2, dst) ==
  LET length == check_length(<<src1.len, src2.len, dst.len>>)
      t1 == <<EvLength(<<src1.len, src2.len, dst.len>>, length)>>
      k == VecCall("arm_mult_q31", length.v)
  IN IF ~length.ok
       THEN Done("panic", None, t1, [dst |-> dst, src1 |-> src1, src2 |-> src2])
       ELSE Done("ok", Unit, t1 \o <<EvNative(k)>>,
                 [dst |-> Written(dst, k), src1 |-> src1, src2 |-> src2])

multiply_q15(src1, src2, dst) ==
  LET length == check_length(<<src1.len, src2.len, dst.len>>)
      t1 == <<EvLength(<<src1.len, src2.len, dst.len>>, length)>>
      k == VecCall("arm_mult_q15", length.v)
  IN IF ~length.ok
       THEN Done("panic", None, t1, [dst |-> dst, src1 |-> src1, src2 |-> src2])
       ELSE Done("ok", Unit, t1 \o <<EvNative(k)>>,
                 [dst |-> Written(dst, k), src1 |-> src1, src2 |-> src2])

multiply_q7(src1, src2, dst) ==
  LET length == check_length(<<src1.len, src2.len, dst.len>>)
      t1 == <<EvLength(<<src1.len, src2.len, dst.len>>, length)>>
      k == VecCall("arm_mult_q7", length.v)
  IN IF ~length.ok
       THEN Done("panic", None, t1, [dst |-> dst, src1 |-> src1, src2 |-> src2])
       ELSE Done("ok", Unit, t1 \o <<EvNative(k)>>,
                 [dst |-> Written(dst, k), src1 |-> src1, src2 |-> src2])

\* the accumulator of a dot product: its initial value and the kernel that wrote it
Accumulator(k) == [hist |-> <<k>>, init |-> 0]

dot_product_f32(src1, src2) ==
  LET length == check_length(<<src1.len, src2.len>>)
      t1 == <<EvLength(<<src1.len, src2.len>>, length)>>
      k == VecCall("arm_dot_prod_f32", length.v)
  IN IF ~length.ok
       THEN Done("panic", None, t1, [src1 |-> src1, src2 |-> src2])
       ELSE Done("ok", Accumulator(k), t1 \o <<EvNative(k)>>, [src1 |-> src1, src2 |-> src2])

dot_product_q31(src1, src2) ==
  LET length == check_length(<<src1.len, src2.len>>)
      t1 == <<EvLength(<<src1.len, src2.len>>, length)>>
      k == VecCall("arm_dot_prod_q31", length.v)
  IN IF ~length.ok
       THEN Done("panic", None, t1, [src1 |-> src1, src2 |-> src2])
       ELSE Done("ok", Accumulator(k), t1 \o <<EvNative(k)>>, [src1 |-> src1, src2 |-> src2])

dot_product_q15(src1, src2) ==
  LET length == check_length(<<src1.len, src2.len>>)
      t1 == <<EvLength(<<src1.len, src2.len>>, length)>>
      k == VecCall("arm_dot_prod_q15", length.v)
  IN IF ~length.ok
       THEN Done("panic", None, t1, [src1 |-> src1, src2 |-> src2])
       ELSE Done("ok", Accumulator(k), t1 \o <<EvNative(k)>>, [src1 |-> src1, src2 |-> src2])

dot_product_q7(src1, src2) ==
  LET length == check_length(<<src1.len, src2.len>>)
      t1 == <<EvLength(<<src1.len, src2.len>>, length)>>
      k == VecCall("arm_dot_prod_q7", length.v)
  IN IF ~length.ok
       THEN Done("panic", None, t1, [src1 |-> src1, src2 |-> src2])
       ELSE Done("ok", Accumulator(k), t1 \o <<EvNative(k)>>, [src1 |-> src1, src2 |-> src2])

complex_magnitude_f32(source, destination) ==
  LET length == crate_check_length(<<source.len, destination.len>>)
      t1 == <<EvLength(<<source.len, destination.len>>, length)>>
      k == VecCall("arm_cmplx_mag_f32", length.v)
  IN IF ~length.ok
       THEN Done("panic", None, t1, [source |-> source, destination |-> destination])
       ELSE Done("ok", Unit, t1 \o <<EvNative(k)>>,
                 [source |-> source, destination |-> Written(destination, k)])

(***************************************************************************)
(* The vector operations are applied once each to slices of every          *)
(* combination of lengths: the initial state holds the slices, and an      *)
(* action is one call.                                                     *)
(***************************************************************************)
VecLens == { USize(q, l) : q \in WrapSet, l \in 0 .. MaxLen }

InitBasic ==
  /\ engine = None
  /\ call = [op |-> "none"]
  /\ outcome = "none"
  /\ ret = None
  /\ trace = <<>>
  /\ \E l1 \in VecLens, l2 \in VecLens, l3 \in VecLens :
       bufs = [dst |-> Fresh(l3), src1 |-> Fresh(l1), src2 |-> Fresh(l2)]

\* an operation called as c ended as d, leaving the caller's slices as b
Applied(c, d, b) ==
  /\ call.op = "none"
  /\ call' = c
  /\ outcome' = d.outcome
  /\ ret' = d.ret
  /\ trace' = d.trace
  /\ bufs' = b
  /\ UNCHANGED engine

Call_abs_f32 ==
  LET d == abs_f32(bufs.src1, bufs.dst)
  IN Applied([bufs |-> [src |-> bufs.src1, dst |-> bufs.dst], op |-> "abs_f32"], d,
             [bufs EXCEPT !.src1 = d.bufs.src, !.dst = d.bufs.dst])

Call_abs_q31 ==
  LET d == abs_q31(bufs.src1, bufs.dst)
  IN Applied([bufs |-> [src |-> bufs.src1, dst |-> bufs.dst], op |-> "abs_q31"], d,
             [bufs EXCEPT !.src1 = d.bufs.src, !.dst = d.bufs.dst])

Call_abs_q15 ==
  LET d == abs_q15(bufs.src1, bufs.dst)
  IN Applied([bufs |-> [src |-> bufs.src1, dst |-> bufs.dst], op |-> "abs_q15"], d,
             [bufs EXCEPT !.src1 = d.bufs.src, !.dst = d.bufs.dst])

Call_abs_q7 ==
  LET d == abs_q7(bufs.src1, bufs.dst)
  IN Applied([bufs |-> [src |-> bufs.src1, dst |-> bufs.dst], op |-> "abs_q7"], d,
             [bufs EXCEPT !.src1 = d.bufs.src, !.dst = d.bufs.dst])

Call_abs_in_place_f32 ==
  LET d == abs_in_place_f32(bufs.dst)
  IN Applied([bufs |-> [values |-> bufs.dst], op |-> "abs_in_place_f32"], d,
             [bufs EXCEPT !.dst = d.bufs.values])

Call_abs_in_place_q31 ==
  LET d == abs_in_place_q31(bufs.dst)
  IN Applied([bufs |-> [values |-> bufs.dst], op |-> "abs_in_place_q31"], d,
             [bufs EXCEPT !.dst = d.bufs.values])

Call_abs_in_place_q15 ==
  LET d == abs_in_place_q15(bufs.dst)
  IN Applied([bufs |-> [values |-> bufs.dst], op |-> "abs_in_place_q15"], d,
             [bufs EXCEPT !.dst = d.bufs.values])

Call_abs_in_place_q7 ==
  LET d == abs_in_place_q7(bufs.dst)
  IN Applied([bufs |-> [values |-> bufs.dst], op |-> "abs_in_place_q7"], d,
             [bufs EXCEPT !.dst = d.bufs.values])

Call_add_f32 ==
  LET d == add_f32(bufs.src1, bufs.src2, bufs.dst)
  IN Applied([bufs |-> [dst |-> bufs.dst, src1 |-> bufs.src1, src2 |-> bufs.src2], op |-> "add_f32"],
             d, [bufs EXCEPT !.src1 = d.bufs.src1, !.src2 = d.bufs.src2, !.dst = d.bufs.dst])

Call_add_q31 ==
  LET d == add_q31(bufs.src1, bufs.src2, bufs.dst)
  IN Applied([bufs |-> [dst |-> bufs.dst, src1 |-> bufs.src1, src2 |-> bufs.src2], op |-> "add_q31"],
             d, [bufs EXCEPT !.src1 = d.bufs.src1, !.src2 = d.bufs.src2, !.dst = d.bufs.dst])

Call_add_q15 ==
  LET d == add_q15(bufs.src1, bufs.src2, bufs.dst)
  IN Applied([bufs |-> [dst |-> bufs.dst, src1 |-> bufs.src1, src2 |-> bufs.src2], op |-> "add_q15"],
             d, [bufs EXCEPT !.src1 = d.bufs.src1, !.src2 = d.bufs.src2, !.dst = d.bufs.dst])

Call_add_q7 ==
  LET d == add_q7(bufs.src1, bufs.src2, bufs.dst)
  IN Applied([bufs |-> [dst |-> bufs.dst, src1 |-> bufs.src1, src2 |-> bufs.src2], op |-> "add_q7"],
             d, [bufs EXCEPT !.src1 = d.bufs.src1, !.src2 = d.bufs.src2, !.dst = d.bufs.dst])

Call_multiply_f32 ==
  LET d == multiply_f32(bufs.src1, bufs.src2, bufs.dst)
  IN Applied([bufs |-> [dst |-> bufs.dst, src1 |-> bufs.src1, src2 |-> bufs.src2], op |-> "multiply_f32"],
             d, [bufs EXCEPT !.src1 = d.bufs.src1, !.src2 = d.bufs.src2, !.dst = d.bufs.dst])

Call_multiply_q31 ==
  LET d == multiply_q31(bufs.src1, bufs.src2, bufs.dst)
  IN Applied([bufs |-> [dst |-> bufs.dst, src1 |-> bufs.src1, src2 |-> bufs.src2], op |-> "multiply_q31"],
             d, [bufs EXCEPT !.src1 = d.bufs.src1, !.src2 = d.bufs.src2, !.dst = d.bufs.dst])

Call_multiply_q15 ==
  LET d == multiply_q15(bufs.src1, bufs.src2, bufs.dst)
  IN Applied([bufs |-> [dst |-> bufs.dst, src1 |-> bufs.src1, src2 |-> bufs.src2], op |-> "multiply_q15"],
             d, [bufs EXCEPT !.src1 = d.bufs.src1, !.src2 = d.bufs.src2, !.dst = d.bufs.dst])

Call_multiply_q7 ==
  LET d == multiply_q7(bufs.src1, bufs.src2, bufs.dst)
  IN Applied([bufs |-> [dst |-> bufs.dst, src1 |-> bufs.src1, src2 |-> bufs.src2], op |-> "multiply_q7"],
             d, [bufs EXCEPT !.src1 = d.bufs.src1, !.src2 = d.bufs.src2, !.dst = d.bufs.dst])

Call_dot_product_f32 ==
  LET d == dot_product_f32(bufs.src1, bufs.src2)
  IN Applied([bufs |-> [src1 |-> bufs.src1, src2 |-> bufs.src2], op |-> "dot_product_f32"], d,
             [bufs EXCEPT !.src1 = d.bufs.src1, !.src2 = d.bufs.src2])

Call_dot_product_q31 ==
  LET d == dot_product_q31(bufs.src1, bufs.src2)
  IN Applied([bufs |-> [src1 |-> bufs.src1, src2 |-> bufs.src2], op |-> "dot_product_q31"], d,
             [bufs EXCEPT !.src1 = d.bufs.src1, !.src2 = d.bufs.src2])

Call_dot_product_q15 ==
  LET d == dot_product_q15(bufs.src1, bufs.src2)
  IN Applied([bufs |-> [src1 |-> bufs.src1, src2 |-> bufs.src2], op |-> "dot_product_q15"], d,
             [bufs EXCEPT !.src1 = d.bufs.src1, !.src2 = d.bufs.src2])

Call_dot_product_q7 ==
  LET d == dot_product_q7(bufs.src1, bufs.src2)
  IN Applied([bufs |-> [src1 |-> bufs.src1, src2 |-> bufs.src2], op |-> "dot_product_q7"], d,
             [bufs EXCEPT !.src1 = d.bufs.src1, !.src2 = d.bufs.src2])

Call_complex_magnitude_f32 ==
  LET d == complex_magnitude_f32(bufs.src1, bufs.dst)
  IN Applied([bufs |-> [source |-> bufs.src1, destination |-> bufs.dst], op |-> "complex_magnitude_f32"], d,
             [bufs EXCEPT !.src1 = d.bufs.source, !.dst = d.bufs.destination])

\* a native status code is converted by check_status
Call_check_status ==
  \E status \in ArmStatus :
    LET r == check_status(status)
    IN Applied([status |-> status, op |-> "check_status"],
               Done(IF r.kind = "Ok" THEN "ok" ELSE "err", r, <<>>, bufs), bufs)

NextBasic ==
  \/ Call_abs_f32
  \/ Call_abs_q31
  \/ Call_abs_q15
  \/ Call_abs_q7
  \/ Call_abs_in_place_f32
  \/ Call_abs_in_place_q31
  \/ Call_abs_in_place_q15
  \/ Call_abs_in_place_q7
  \/ Call_add_f32
  \/ Call_add_q31
  \/ Call_add_q15
  \/ Call_add_q7
  \/ Call_multiply_f32
  \/ Call_multiply_q31
  \/ Call_multiply_q15
  \/ Call_multiply_q7
  \/ Call_dot_product_f32
  \/ Call_dot_product_q31
  \/ Call_dot_product_q15
  \/ Call_dot_product_q7
  \/ Call_complex_magnitude_f32
  \/ Call_check_status

SpecBasic == InitBasic /\ [][NextBasic]_vars

(***************************************************************************)
(* Exact integers.  The products and sums of fixed-point values need up to *)
(* 64 bits and more, so they are computed on integers of any size: a sign  *)
(* and a magnitude, the magnitude a sequence of digits to the base 2^15,   *)
(* least significant first, without leading zero digits.                   *)
(***************************************************************************)
B15 == 32768

RECURSIVE MagOfNat(_)
MagOfNat(v) == IF v = 0 THEN <<>> ELSE <<v % B15>> \o MagOfNat(v \div B15)

RECURSIVE MagTrim(_)
MagTrim(a) ==
  IF a = <<>> THEN <<>>
  ELSE IF a[Len(a)] = 0 THEN MagTrim(SubSeq(a, 1, Len(a) - 1)) ELSE a

RECURSIVE MagAddC(_, _, _)
MagAddC(a, b, c) ==
  IF a = <<>> /\ b = <<>>
    THEN MagOfNat(c)
    ELSE LET s == (IF a = <<>> THEN 0 ELSE Head(a)) + (IF b = <<>> THEN 0 ELSE Head(b)) + c
         IN <<s % B15>> \o MagAddC(IF a = <<>> THEN <<>> ELSE Tail(a),
                                   IF b = <<>> THEN <<>> ELSE Tail(b), s \div B15)

MagAdd(a, b) == MagAddC(a, b, 0)

\* a - b - c for a >= b + c, digit by digit with the borrow c
RECURSIVE MagSubC(_, _, _)
MagSubC(a, b, c) ==
  IF a = <<>>
    THEN <<>>
    ELSE LET s == Head(a) - (IF b = <<>> THEN 0 ELSE Head(b)) - c
         IN <<s % B15>> \o MagSubC(Tail(a), IF b = <<>> THEN <<>> ELSE Tail(b),
                                   IF s < 0 THEN 1 ELSE 0)

MagSub(a, b) == MagTrim(MagSubC(a, b, 0))

\* -1, 0, 1 as a is less than, equal to, greater than b
RECURSIVE MagCmp(_, _)
MagCmp(a, b) ==
  IF Len(a) # Len(b) THEN (IF Len(a) < Len(b) THEN -1 ELSE 1)
  ELSE IF a = <<>> THEN 0
  ELSE IF a[Len(a)] # b[Len(b)] THEN (IF a[Len(a)] < b[Len(b)] THEN -1 ELSE 1)
  ELSE MagCmp(SubSeq(a, 1, Len(a) - 1), SubSeq(b, 1, Len(b) - 1))

\* a * m + c for a digit m
RECURSIVE MagMulSmall(_, _, _)
MagMulSmall(a, m, c) ==
  IF a = <<>>
    THEN MagOfNat(c)
    ELSE LET s == Head(a) * m + c
         IN <<s % B15>> \o MagMulSmall(Tail(a), m, s \div B15)

RECURSIVE MagMulAll(_, _)
MagMulAll(a, b) ==
  IF b = <<>>
    THEN <<>>
    ELSE MagAdd(MagMulSmall(a, Head(b), 0), <<0>> \o MagMulAll(a, Tail(b)))

MagMul(a, b) == MagTrim(MagMulAll(a, b))

\* the quotient of a by a digit m, from the most significant digit down;
\* r is the remainder so far
RECURSIVE MagDivSmall(_, _, _)
MagDivSmall(a, m, r) ==
  IF a = <<>>
    THEN [quot |-> <<>>, rem |-> r]
    ELSE LET s == r * B15 + a[Len(a)]
             rest == MagDivSmall(SubSeq(a, 1, Len(a) - 1), m, s % m)
         IN [quot |-> Append(rest.quot, s \div m), rem |-> rest.rem]

RECURSIVE SmallPow2(_)
SmallPow2(e) == IF e = 0 THEN 1 ELSE 2 * SmallPow2(e - 1)

\* floor(a / 2^k), and whether the division is exact
MagShr(a, k) ==
  LET drop == IF k \div 15 < Len(a) THEN k \div 15 ELSE Len(a)
      low == SubSeq(a, 1, drop)
      d == MagDivSmall(SubSeq(a, drop + 1, Len(a)), SmallPow2(k % 15), 0)
  IN [quot |-> MagTrim(d.quot),
      exact |-> d.rem = 0 /\ \A i \in 1 .. drop : low[i] = 0]

MagPow2(k) == [i \in 1 .. (k \div 15) |-> 0] \o <<SmallPow2(k % 15)>>

Big(neg, mag) == [neg |-> neg /\ mag # <<>>, mag |-> mag]

BigOfInt(v) ==
  IF v >= 0
    THEN Big(FALSE, MagOfNat(v))
    ELSE Big(TRUE, MagAdd(MagOfNat(-(v + 1)), <<1>>))

BigOfWide(w) == Big(FALSE, MagAdd(MagMul(MagOfNat(w.q), MagOfNat(W16)), MagOfNat(w.l)))

BigPow2(k) == Big(FALSE, MagPow2(k))

BigNeg(a) == Big(~a.neg, a.mag)

BigAdd(a, b) ==
  IF a.neg = b.neg
    THEN Big(a.neg, MagAdd(a.mag, b.mag))
    ELSE IF MagCmp(a.mag, b.mag) >= 0
      THEN Big(a.neg, MagSub(a.mag, b.mag))
      ELSE Big(b.neg, MagSub(b.mag, a.mag))

BigSub(a, b) == BigAdd(a, BigNeg(b))

BigMul(a, b) == Big(a.neg # b.neg, MagMul(a.mag, b.mag))

BigLess(a, b) ==
  IF a.neg # b.neg THEN a.neg
  ELSE IF a.neg THEN MagCmp(a.mag, b.mag) > 0
  ELSE MagCmp(a.mag, b.mag) < 0

BigLeq(a, b) == ~BigLess(b, a)

\* floor(a / 2^k): an arithmetic shift right by k bits
BigShr(a, k) ==
  LET d == MagShr(a.mag, k)
  IN IF a.neg /\ ~d.exact
       THEN Big(TRUE, MagAdd(d.quot, <<1>>))
       ELSE Big(a.neg, d.quot)

\* the value of a as a machine integer of the model, for |a| <= 2^31
RECURSIVE MagToNat(_)
MagToNat(a) == IF a = <<>> THEN 0 ELSE Head(a) + B15 * MagToNat(Tail(a))

BigToInt(a) ==
  IF a.neg THEN (-MagToNat(MagSub(a.mag, <<1>>))) - 1 ELSE MagToNat(a.mag)

(***************************************************************************)
(* Fixed-point types (fixed::types): a two's-complement bit pattern of     *)
(* int + frac bits.  An element is its bit pattern; an accumulator is the  *)
(* exact integer of its bit pattern.                                       *)
(***************************************************************************)
I1F7 == [int |-> 1, frac |-> 7]
I1F15 == [int |-> 1, frac |-> 15]
I1F31 == [int |-> 1, frac |-> 31]
I18F14 == [int |-> 18, frac |-> 14]
I34F30 == [int |-> 34, frac |-> 30]
I16F48 == [int |-> 16, frac |-> 48]

TypeBits(T) == T.int + T.frac
TypeMin(T) == BigNeg(BigPow2(TypeBits(T) - 1))
TypeMax(T) == BigSub(BigPow2(TypeBits(T) - 1), BigOfInt(1))
Fits(v, T) == BigLeq(TypeMin(T), v) /\ BigLeq(v, TypeMax(T))

\* v clamped to the range of T
Saturate(v, T) ==
  IF BigLess(TypeMax(T), v) THEN TypeMax(T)
  ELSE IF BigLess(v, TypeMin(T)) THEN TypeMin(T)
  ELSE v

\* the low bits of v read as a value of T
WrapAround(v, T) ==
  LET half == BigPow2(TypeBits(T) - 1)
      turns == BigShr(BigAdd(v, half), TypeBits(T))
  IN BigSub(v, BigMul(turns, BigPow2(TypeBits(T))))

(***************************************************************************)
(* The native vector kernels on element values.  They are not part of the  *)
(* crate: the elementwise fixed-point kernels saturate, and the dot        *)
(* products add the products, brought to the fraction bits of the          *)
(* accumulator, in an accumulator of the returned type.  What an           *)
(* accumulator holds when the sum does not fit is not said: it is the      *)
(* choice sat of an invocation between a clamped and a wrapped value.      *)
(***************************************************************************)
arm_add_q15(a, b) == BigToInt(Saturate(BigAdd(BigOfInt(a), BigOfInt(b)), I1F15))

arm_add_q31(a, b) == BigToInt(Saturate(BigAdd(BigOfInt(a), BigOfInt(b)), I1F31))

arm_mult_q15(a, b) ==
  BigToInt(Saturate(BigShr(BigMul(BigOfInt(a), BigOfInt(b)), I1F15.frac), I1F15))

arm_mult_q31(a, b) ==
  BigToInt(Saturate(BigShr(BigMul(BigOfInt(a), BigOfInt(b)), I1F31.frac), I1F31))

\* the contents of a slice: runs of n equal elements x
Run(n, x) == [n |-> n, x |-> x]

\* the sum of the products of two slices of equal runs, each product
\* shifted right by shift bits
RECURSIVE SumOfProducts(_, _, _)
SumOfProducts(r1, r2, shift) ==
  IF r1 = <<>>
    THEN BigOfInt(0)
    ELSE BigAdd(BigMul(BigOfWide(Head(r1).n),
                       BigShr(BigMul(BigOfInt(Head(r1).x), BigOfInt(Head(r2).x)), shift)),
                SumOfProducts(Tail(r1), Tail(r2), shift))

\* an accumulator of type T that started as init and was given the sum v
Accumulated(init, v, T, sat) ==
  LET s == BigAdd(BigOfInt(init), v)
  IN IF Fits(s, T) THEN s ELSE IF sat THEN Saturate(s, T) ELSE WrapAround(s, T)

arm_dot_prod_f32(r1, r2, init) == BigAdd(BigOfInt(init), SumOfProducts(r1, r2, 0))

arm_dot_prod_q31(r1, r2, init, sat) ==
  Accumulated(init, SumOfProducts(r1, r2, 2 * I1F31.frac - I16F48.frac), I16F48, sat)

arm_dot_prod_q15(r1, r2, init, sat) ==
  Accumulated(init, SumOfProducts(r1, r2, 2 * I1F15.frac - I34F30.frac), I34F30, sat)

arm_dot_prod_q7(r1, r2, init, sat) ==
  Accumulated(init, SumOfProducts(r1, r2, 2 * I1F7.frac - I18F14.frac), I18F14, sat)

(***************************************************************************)
(* The vector operations on slices with contents.  A slice is as before    *)
(* its length and its history, and also its element type and its contents. *)
(* Short slices hold up to MaxVec elements; long slices hold one element   *)
(* value throughout and have the lengths at which an accumulator type runs *)
(* out of integer bits, the largest length the length check accepts and    *)
(* the smallest it rejects.                                                *)
(***************************************************************************)
ElemTypes == {"f32", "q31", "q15", "q7"}

ElemType(ty) ==
  CASE ty = "q31" -> I1F31
    [] ty = "q15" -> I1F15
    [] ty = "q7" -> I1F7

\* element values: the least value, minus a half and a half
FixedValues(T) ==
  {BigToInt(TypeMin(T)), BigToInt(BigNeg(BigPow2(TypeBits(T) - 2))),
   BigToInt(BigPow2(TypeBits(T) - 2))}

\* float values are small integers, which f32 holds exactly
Values1(ty) == IF ty = "f32" THEN {1, 2, 3} ELSE FixedValues(ElemType(ty))
Values2(ty) == IF ty = "f32" THEN {4, 5, 6} ELSE FixedValues(ElemType(ty))

WidePow2(e) == IF e < 16 THEN USize(0, SmallPow2(e)) ELSE USize(SmallPow2(e - 16), 0)
WidePred(w) == IF w.l = 0 THEN USize(w.q - 1, W16 - 1) ELSE USize(w.q, w.l - 1)

LongLens ==
  UNION { {WidePred(WidePow2(T.int - 1)), WidePow2(T.int - 1)} : T \in {I16F48, I18F14} }
    \cup {WidePred(WidePow2(32)), WidePow2(32)}

Shapes(ty) ==
  { [i \in 1 .. len |-> Wide(1)] : len \in 0 .. MaxVec }
    \cup (IF ty = "f32" THEN {} ELSE { <<n>> : n \in LongLens })

RECURSIVE ShapeLen(_)
ShapeLen(shape) ==
  IF shape = <<>>
    THEN Wide(0)
    ELSE LET rest == ShapeLen(Tail(shape))
             l == Head(shape).l + rest.l
         IN USize(Head(shape).q + rest.q + (l \div W16), l % W16)

Slice(ty, shape, values) ==
  [len |-> ShapeLen(shape), hist |-> <<>>, elem |-> ty,
   runs |-> [i \in 1 .. Len(shape) |-> Run(shape[i], values[i])]]

InitNum ==
  /\ engine = None
  /\ call = [op |-> "none"]
  /\ outcome = "none"
  /\ ret = None
  /\ trace = <<>>
  /\ \E ty \in ElemTypes :
       \E shape \in Shapes(ty) :
         \E v1 \in [1 .. Len(shape) -> Values1(ty)], v2 \in [1 .. Len(shape) -> Values2(ty)] :
           bufs = [dst |-> Slice(ty, shape, [i \in 1 .. Len(shape) |-> 0]),
                   src1 |-> Slice(ty, shape, v1),
                   src2 |-> Slice(ty, shape, v2)]

\* the kernel an operation that ended as d invoked
KernelOf(d) == d.trace[Len(d.trace)].k.fn

ElementKernel(fn, a, b) ==
  CASE fn = "arm_add_q15" -> arm_add_q15(a, b)
    [] fn = "arm_add_q31" -> arm_add_q31(a, b)
    [] fn = "arm_mult_q15" -> arm_mult_q15(a, b)
    [] fn = "arm_mult_q31" -> arm_mult_q31(a, b)

DotKernel(fn, r1, r2, init, sat) ==
  CASE fn = "arm_dot_prod_f32" -> arm_dot_prod_f32(r1, r2, init)
    [] fn = "arm_dot_prod_q31" -> arm_dot_prod_q31(r1, r2, init, sat)
    [] fn = "arm_dot_prod_q15" -> arm_dot_prod_q15(r1, r2, init, sat)
    [] fn = "arm_dot_prod_q7" -> arm_dot_prod_q7(r1, r2, init, sat)

\* the slices after an elementwise operation that ended as d: the kernel
\* it invoked has written dst
Elementwise(d) ==
  IF d.outcome = "ok"
    THEN [d.bufs EXCEPT !.dst.runs =
            [i \in 1 .. Len(@) |->
               Run(@[i].n, ElementKernel(KernelOf(d), d.bufs.src1.runs[i].x,
                                         d.bufs.src2.runs[i].x))]]
    ELSE d.bufs

\* the result of a dot product that ended as d: the kernel it invoked has
\* written the accumulator
Returned(d, sat) ==
  IF d.outcome = "ok"
    THEN Done("ok",
              [hist |-> d.ret.hist, init |-> d.ret.init,
               bits |-> DotKernel(KernelOf(d), d.bufs.src1.runs, d.bufs.src2.runs,
                                  d.ret.init, sat)],
              d.trace, d.bufs)
    ELSE d

Num_add_q31 ==
  /\ bufs.src1.elem = "q31"
  /\ LET d == add_q31(bufs.src1, bufs.src2, bufs.dst)
     IN Applied([bufs |-> bufs, op |-> "add_q31"], d, Elementwise(d))

Num_add_q15 ==
  /\ bufs.src1.elem = "q15"
  /\ LET d == add_q15(bufs.src1, bufs.src2, bufs.dst)
     IN Applied([bufs |-> bufs, op |-> "add_q15"], d, Elementwise(d))

Num_multiply_q31 ==
  /\ bufs.src1.elem = "q31"
  /\ LET d == multiply_q31(bufs.src1, bufs.src2, bufs.dst)
     IN Applied([bufs |-> bufs, op |-> "multiply_q31"], d, Elementwise(d))

Num_multiply_q15 ==
  /\ bufs.src1.elem = "q15"
  /\ LET d == multiply_q15(bufs.src1, bufs.src2, bufs.dst)
     IN Applied([bufs |-> bufs, op |-> "multiply_q15"], d, Elementwise(d))

Num_dot_product_f32 ==
  /\ bufs.src1.elem = "f32"
  /\ LET d == dot_product_f32(bufs.src1, bufs.src2)
     IN Applied([bufs |-> bufs, op |-> "dot_product_f32"], Returned(d, FALSE), bufs)

Num_dot_product_q31 ==
  /\ bufs.src1.elem = "q31"
  /\ \E sat \in BOOLEAN :
       LET d == dot_product_q31(bufs.src1, bufs.src2)
       IN Applied([bufs |-> bufs, op |-> "dot_product_q31"], Returned(d, sat), bufs)

Num_dot_product_q15 ==
  /\ bufs.src1.elem = "q15"
  /\ \E sat \in BOOLEAN :
       LET d == dot_product_q15(bufs.src1, bufs.src2)
       IN Applied([bufs |-> bufs, op |-> "dot_product_q15"], Returned(d, sat), bufs)

Num_dot_product_q7 ==
  /\ bufs.src1.elem = "q7"
  /\ \E sat \in BOOLEAN :
       LET d == dot_product_q7(bufs.src1, bufs.src2)
       IN Applied([bufs |-> bufs, op |-> "dot_product_q7"], Returned(d, sat), bufs)

NextNum ==
  \/ Num_add_q31
  \/ Num_add_q15
  \/ Num_multiply_q31
  \/ Num_multiply_q15
  \/ Num_dot_product_f32
  \/ Num_dot_product_q31
  \/ Num_dot_product_q15
  \/ Num_dot_product_q7

SpecNum == InitNum /\ [][NextNum]_vars

(***************************************************************************)
(* Absolute values, out of place and in place, on slices with contents.    *)
(* The native kernels arm_abs_* are not part of the crate: they make one   *)
(* pass over the indices, reading pSrc[i] and then writing pDst[i], and    *)
(* the fixed-point ones saturate (the absolute value of the least value is *)
(* the greatest).  The kernel is modelled on a memory in which pSrc and    *)
(* pDst name slices, so that the two may name the same one.                *)
(***************************************************************************)
arm_abs_value(fn, x) ==
  IF fn = "arm_abs_f32"
    THEN (IF x < 0 THEN 0 - x ELSE x)
    ELSE LET T == CASE fn = "arm_abs_q31" -> I1F31
                    [] fn = "arm_abs_q15" -> I1F15
                    [] fn = "arm_abs_q7" -> I1F7
         IN IF x < 0 THEN BigToInt(Saturate(BigNeg(BigOfInt(x)), T)) ELSE x

\* the memory after arm_abs_*(pSrc, pDst, blockSize), from index i on
RECURSIVE arm_abs(_, _, _, _, _)
arm_abs(fn, mem, pSrc, pDst, i) ==
  IF i > Len(mem[pSrc])
    THEN mem
    ELSE arm_abs(fn,
                 [mem EXCEPT ![pDst][i] = Run(mem[pSrc][i].n, arm_abs_value(fn, mem[pSrc][i].x))],
                 pSrc, pDst, i + 1)

\* float values are small integers, which f32 holds exactly
AbsValues(ty) == IF ty = "f32" THEN {0 - 2, 0, 3} ELSE FixedValues(ElemType(ty))

InitAbs ==
  /\ engine = None
  /\ call = [op |-> "none"]
  /\ outcome = "none"
  /\ ret = None
  /\ trace = <<>>
  /\ \E ty \in ElemTypes :
       \E shape \in Shapes(ty) :
         \E v \in [1 .. Len(shape) -> AbsValues(ty)] :
           bufs = [dst |-> Slice(ty, shape, [i \in 1 .. Len(shape) |-> 0]),
                   src1 |-> Slice(ty, shape, v)]

\* abs_<t>(src, dst) for the element type of the slices
AbsInto(src, dst) ==
  CASE src.elem = "f32" -> abs_f32(src, dst)
    [] src.elem = "q31" -> abs_q31(src, dst)
    [] src.elem = "q15" -> abs_q15(src, dst)
    [] src.elem = "q7" -> abs_q7(src, dst)

\* abs_in_place_<t>(values) for the element type of the slice
AbsInPlace(values) ==
  CASE values.elem = "f32" -> abs_in_place_f32(values)
    [] values.elem = "q31" -> abs_in_place_q31(values)
    [] values.elem = "q15" -> abs_in_place_q15(values)
    [] values.elem = "q7" -> abs_in_place_q7(values)

\* abs_<t>(src1, dst), once, on the slices as they were drawn
Abs_out_of_place ==
  LET d == AbsInto(bufs.src1, bufs.dst)
  IN Applied([bufs |-> [src |-> bufs.src1, dst |-> bufs.dst], op |-> "abs"], d,
             IF d.outcome = "ok"
               THEN [dst |-> [d.bufs.dst EXCEPT !.runs =
                                arm_abs(KernelOf(d), [src |-> d.bufs.src.runs, dst |-> @],
                                        "src", "dst", 1).dst],
                     src1 |-> d.bufs.src]
               ELSE bufs)

\* abs_in_place_<t>(src1), up to MaxApply times; a panic ends the program
Abs_in_place ==
  /\ outcome # "panic"
  /\ Len(bufs.src1.hist) < MaxApply
  /\ LET d == AbsInPlace(bufs.src1)
     IN /\ call' = [bufs |-> [values |-> bufs.src1], op |-> "abs_in_place"]
        /\ outcome' = d.outcome
        /\ ret' = d.ret
        /\ trace' = d.trace
        /\ bufs' = [bufs EXCEPT !.src1 =
                      IF d.outcome = "ok"
                        THEN [d.bufs.values EXCEPT !.runs =
                                arm_abs(KernelOf(d), [values |-> @],
                                        "values", "values", 1).values]
                        ELSE d.bufs.values]
        /\ UNCHANGED engine

NextAbs ==
  \/ Abs_out_of_place
  \/ Abs_in_place

SpecAbs == InitAbs /\ [][NextAbs]_vars

(***************************************************************************)
(* The build scripts.  cargo gives a build script the target, its          *)
(* endianness and the enabled features in environment variables, and an    *)
(* output directory that belongs to that configuration.  In SpecBuild,     *)
(* bufs holds what the scripts read and write: env, the environment, which *)
(* stays as drawn, and out_dir, of which the model follows the marker      *)
(* .done, the library file lib<name>.a of the configuration and the        *)
(* downloaded CMSIS.pack.  A file is absent, partial (its size differs     *)
(* from the size of the remote file or of the archive member) or full.     *)
(***************************************************************************)
Targets ==
  {"thumbv6m-none-eabi", "thumbv7m-none-eabi", "thumbv7em-none-eabi",
   "thumbv7em-none-eabihf", "thumbv8m.base-none-eabi", "thumbv8m.main-none-eabi",
   "thumbv8m.main-none-eabihf", "x86_64-unknown-linux-gnu"}
Endians == {"big", "little"}
Features == {"cortex-m4", "cortex-m7", "double-precision-fpu", "dsp-instructions"}
Envs == [target : Targets, endian : Endians, features : SUBSET Features]

Some(v) == [v |-> v, kind |-> "Some"]
Panicked == [kind |-> "panic"]

\* cmsis_dsp_sys/build.rs: the library main links; None where it exits
\* without linking
cmsis_dsp_sys_lib_name(env) ==
  LET target == env.target
      endian == env.endian
      cortex_m4 == "cortex-m4" \in env.features
      cortex_m7 == "cortex-m7" \in env.features
      double_precision == "double-precision-fpu" \in env.features
      core_type == CASE ~cortex_m4 /\ ~cortex_m7 -> "Other"
                     [] cortex_m4 /\ ~cortex_m7 -> "M4"
                     [] ~cortex_m4 /\ cortex_m7 -> "M7"
                     [] cortex_m4 /\ cortex_m7 -> "panic"
  IN IF core_type = "panic"
       THEN Panicked
       ELSE IF core_type # "M7" /\ double_precision
         THEN Panicked
         ELSE CASE
              target = "thumbv6m-none-eabi" /\ endian = "little" -> Some("arm_cortexM0l_math")
           [] target = "thumbv6m-none-eabi" /\ endian = "big" -> Some("arm_cortexM0b_math")
           [] target = "thumbv7m-none-eabi" /\ endian = "little" -> Some("arm_cortexM3l_math")
           [] target = "thumbv7m-none-eabi" /\ endian = "big" -> Some("arm_cortexM3b_math")
           [] target = "thumbv7em-none-eabi" /\ endian = "little" /\ core_type = "M4" ->
                Some("arm_cortexM4l_math")
           [] target = "thumbv7em-none-eabi" /\ endian = "big" /\ core_type = "M4" ->
                Some("arm_cortexM4b_math")
           [] target = "thumbv7em-none-eabi" /\ endian = "little" /\ core_type = "M7" ->
                Some("arm_cortexM7l_math")
           [] target = "thumbv7em-none-eabi" /\ endian = "big" /\ core_type = "M7" ->
                Some("arm_cortexM7b_math")
           [] target = "thumbv7em-none-eabi" /\ core_type = "Other" -> Panicked
           [] target = "thumbv7em-none-eabihf" /\ endian = "little" /\ core_type = "M4" ->
                Some("arm_cortexM4lf_math")
           [] target = "thumbv7em-none-eabihf" /\ endian = "big" /\ core_type = "M4" ->
                Some("arm_cortexM4bf_math")
           [] target = "thumbv7em-none-eabihf" /\ endian = "little" /\ core_type = "M7" ->
                Some(IF double_precision THEN "arm_cortexM7lfdp_math"
                                         ELSE "arm_cortexM7lfsp_math")
           [] target = "thumbv7em-none-eabihf" /\ endian = "big" /\ core_type = "M7" ->
                Some(IF double_precision THEN "arm_cortexM7bfdp_math"
                                         ELSE "arm_cortexM7bfsp_math")
           [] target = "thumbv7em-none-eabihf" /\ core_type = "Other" -> Panicked
           [] OTHER -> None

\* cmsis_dsp_sys/build.rs, main: it leaves the output directory alone
cmsis_dsp_sys_main(env, out_dir) ==
  LET lib_name == cmsis_dsp_sys_lib_name(env)
  IN CASE lib_name = Panicked -> Done("panic", None, <<>>, out_dir)
       [] lib_name = None -> Done("exit", None, <<<<"cargo:warning">>>>, out_dir)
       [] OTHER -> Done("ok", Unit,
                        <<<<"cargo:rustc-link-search", "lib_dir">>,
                          <<"cargo:rustc-link-lib", lib_name.v>>>>,
                        out_dir)

\* cmsis_dsp_sys_pregenerated/build.rs
choose_library(env) ==
  LET target == env.target
      endian == env.endian
      core == IF "cortex-m7" \in env.features THEN "M7" ELSE "NotM7"
      double_precision == "double-precision-fpu" \in env.features
      dsp_instructions == "dsp-instructions" \in env.features
  IN IF double_precision /\ core # "M7"
       THEN Panicked
       ELSE CASE
            target = "thumbv6m-none-eabi" /\ endian = "little" -> Some("arm_cortexM0l_math")
         [] target = "thumbv6m-none-eabi" /\ endian = "big" -> Some("arm_cortexM0b_math")
         [] target = "thumbv7m-none-eabi" /\ endian = "little" -> Some("arm_cortexM3l_math")
         [] target = "thumbv7m-none-eabi" /\ endian = "big" -> Some("arm_cortexM3b_math")
         [] target = "thumbv7em-none-eabi" /\ endian = "little" /\ core = "NotM7" ->
              Some("arm_cortexM4l_math")
         [] target = "thumbv7em-none-eabi" /\ endian = "big" /\ core = "NotM7" ->
              Some("arm_cortexM4b_math")
         [] target = "thumbv7em-none-eabi" /\ endian = "little" /\ core = "M7" ->
              Some("arm_cortexM7l_math")
         [] target = "thumbv7em-none-eabi" /\ endian = "big" /\ core = "M7" ->
              Some("arm_cortexM7b_math")
         [] target = "thumbv7em-none-eabihf" /\ endian = "little" /\ core = "NotM7" ->
              Some("arm_cortexM4lf_math")
         [] target = "thumbv7em-none-eabihf" /\ endian = "big" /\ core = "NotM7" ->
              Some("arm_cortexM4bf_math")
         [] target = "thumbv7em-none-eabihf" /\ endian = "little" /\ core = "M7" ->
              Some(IF double_precision THEN "arm_cortexM7lfdp_math"
                                       ELSE "arm_cortexM7lfsp_math")
         [] target = "thumbv7em-none-eabihf" /\ endian = "big" /\ core = "M7" ->
              Some(IF double_precision THEN "arm_cortexM7bfdp_math"
                                       ELSE "arm_cortexM7bfsp_math")
         [] target = "thumbv8m.base-none-eabi" /\ endian = "little" -> Some("arm_ARMv8MBLl_math")
         [] target = "thumbv8m.base-none-eabi" /\ endian = "big" -> Panicked
         [] target = "thumbv8m.main-none-eabi" /\ endian = "little" ->
              Some(IF dsp_instructions THEN "arm_ARMv8MMLld_math" ELSE "arm_ARMv8MMLl_math")
         [] target = "thumbv8m.main-none-eabi" /\ endian = "big" -> Panicked
         [] target = "thumbv8m.main-none-eabihf" /\ endian = "little" ->
              Some(IF dsp_instructions THEN "arm_ARMv8MMLldfsp_math"
                                       ELSE "arm_ARMv8MMLlfsp_math")
         [] target = "thumbv8m.main-none-eabihf" /\ endian = "big" -> Panicked
         [] OTHER -> None

(***************************************************************************)
(* cmsis_dsp_sys_pregenerated/build.rs, the output directory.  What the    *)
(* network and the file system do is not decided by the script: head says  *)
(* whether the HEAD request gives a size, and f names the one step of the  *)
(* invocation that fails, if it is reached ("none": no step fails).  The   *)
(* trace lists the requests, the extraction and the lines printed for      *)
(* cargo.                                                                  *)
(***************************************************************************)
FileStates == {"absent", "partial", "full"}
OutDirs == [done : {"absent", "full"}, lib : FileStates, pack : FileStates]
Faults ==
  {"none", "remove_done_file", "add_done_file", "ureq::get", "status", "OpenOptions::open",
   "io::copy pack", "seek", "File::open", "ZipArchive::new", "by_name", "File::create",
   "io::copy lib", "fs::remove_file"}

file_exists(out_dir, path) == out_dir[path] # "absent"
done_file_exists(out_dir) == file_exists(out_dir, "done")

\* ok is FALSE for Err(e)
remove_done_file(out_dir, f) ==
  IF f = "remove_done_file"
    THEN [ok |-> FALSE, out_dir |-> out_dir]
    ELSE [ok |-> TRUE, out_dir |-> [out_dir EXCEPT !.done = "absent"]]

add_done_file(out_dir, f) ==
  IF f = "add_done_file"
    THEN [ok |-> FALSE, out_dir |-> out_dir]
    ELSE [ok |-> TRUE, out_dir |-> [out_dir EXCEPT !.done = "full"]]

download_and_open_file(out_dir, f, t) ==
  LET t1 == Append(t, <<"GET">>)
  IN CASE f = "ureq::get" -> Done("err", Err(f), t1, out_dir)
       [] f = "status" -> Done("panic", None, t1, out_dir)
       [] f = "OpenOptions::open" -> Done("err", Err(f), t1, out_dir)
       [] f = "io::copy pack" -> Done("err", Err(f), t1, [out_dir EXCEPT !.pack = "partial"])
       [] f = "seek" -> Done("err", Err(f), t1, [out_dir EXCEPT !.pack = "full"])
       [] OTHER -> Done("ok", Unit, t1, [out_dir EXCEPT !.pack = "full"])

\* the local file exists, the remote size is known, and the two agree
fully_downloaded(out_dir, head) == file_exists(out_dir, "pack") /\ head /\ out_dir.pack = "full"

download_cmsis_pack(out_dir, head, f, t) ==
  LET t1 == IF file_exists(out_dir, "pack") THEN Append(t, <<"HEAD">>) ELSE t
  IN IF fully_downloaded(out_dir, head)
       THEN IF f = "File::open"
              THEN Done("err", Err(f), t1, out_dir)
              ELSE Done("ok", Unit, t1, out_dir)
       ELSE download_and_open_file(out_dir, f, t1)

fully_extracted(out_dir) == file_exists(out_dir, "lib") /\ out_dir.lib = "full"

download_library(out_dir, library_name, head, f, t) ==
  LET p == download_cmsis_pack(out_dir, head, f, t)
      t1 == Append(p.trace, <<"extract", library_name>>)
  IN CASE p.outcome # "ok" -> p
       [] p.outcome = "ok" /\ f \in {"ZipArchive::new", "by_name"} ->
            Done("err", Err(f), p.trace, p.bufs)
       [] p.outcome = "ok" /\ f \notin {"ZipArchive::new", "by_name"} ->
            IF fully_extracted(p.bufs)
              THEN Done("ok", Unit, p.trace, p.bufs)
              ELSE CASE f = "File::create" -> Done("err", Err(f), t1, p.bufs)
                     [] f = "io::copy lib" ->
                          Done("err", Err(f), t1, [p.bufs EXCEPT !.lib = "partial"])
                     [] OTHER -> Done("ok", Unit, t1, [p.bufs EXCEPT !.lib = "full"])

\* the end of download_and_link_library, reached with no error: the pack
\* is removed, whether or not that works, and the link lines are printed
LinkLibrary(out_dir, library_name, f, t) ==
  Done("ok", Ok(Unit),
       t \o <<<<"cargo:rustc-link-search", "OUT_DIR">>, <<"cargo:rustc-link-lib", library_name>>>>,
       IF f = "fs::remove_file" THEN out_dir ELSE [out_dir EXCEPT !.pack = "absent"])

\* download_library(..)?; add_done_file(..)?;
DownloadAndMark(out_dir, library_name, head, f) ==
  LET l == download_library(out_dir, library_name, head, f, <<>>)
      a == add_done_file(l.bufs, f)
  IN CASE l.outcome = "panic" -> l
       [] l.outcome = "err" -> l
       [] l.outcome = "ok" /\ ~a.ok -> Done("err", Err(f), l.trace, a.out_dir)
       [] l.outcome = "ok" /\ a.ok -> LinkLibrary(a.out_dir, library_name, f, l.trace)

\* (variant: the marker is written before the library is downloaded)
download_and_link_library_MarkerFirst(out_dir, library_name, head, f) ==
  IF done_file_exists(out_dir) /\ file_exists(out_dir, "lib")
    THEN LinkLibrary(out_dir, library_name, f, <<>>)
    ELSE LET a == add_done_file(out_dir, f)
             l == download_library(a.out_dir, library_name, head, f, <<>>)
         IN CASE ~a.ok -> Done("err", Err(f), <<>>, a.out_dir)
              [] a.ok /\ l.outcome # "ok" -> l
              [] a.ok /\ l.outcome = "ok" -> LinkLibrary(l.bufs, library_name, f, l.trace)

\* (variant: the marker and the library file are not looked at)
download_and_link_library_AlwaysDownload(out_dir, library_name, head, f) ==
  DownloadAndMark(out_dir, library_name, head, f)

download_and_link_library(out_dir, library_name, head, f) ==
  IF done_file_exists(out_dir)
    THEN IF file_exists(out_dir, "lib")
           THEN LinkLibrary(out_dir, library_name, f, <<>>)
           ELSE LET r == remove_done_file(out_dir, f)
                IN IF ~r.ok
                     THEN Done("err", Err(f), <<>>, r.out_dir)
                     ELSE DownloadAndMark(r.out_dir, library_name, head, f)
    ELSE DownloadAndMark(out_dir, library_name, head, f)

\* main: ret is what download_and_link_library returned, None where it was
\* not called or did not return; unwrap makes a panic of an Err
main(env, out_dir, head, f) ==
  LET library_name == choose_library(env)
  IN CASE library_name = Panicked -> Done("panic", None, <<>>, out_dir)
       [] library_name = None ->
            Done("ok", None, <<<<"cargo:warning">>, <<"cargo:rerun-if-changed", "build.rs">>>>,
                 out_dir)
       [] OTHER ->
            LET d == download_and_link_library(out_dir, library_name.v, head, f)
            IN IF d.outcome = "ok"
                 THEN Done("ok", d.ret,
                           Append(d.trace, <<"cargo:rerun-if-changed", "build.rs">>), d.bufs)
                 ELSE Done("panic", d.ret, d.trace, d.bufs)

InitBuild ==
  /\ engine = None
  /\ call = [op |-> "none"]
  /\ outcome = "none"
  /\ ret = None
  /\ trace = <<>>
  /\ \E env \in Envs, out_dir \in OutDirs : bufs = [env |-> env, out_dir |-> out_dir]

\* one run of a build script ended as d
BuildRan(c, d) ==
  /\ call' = c
  /\ outcome' = d.outcome
  /\ ret' = d.ret
  /\ trace' = d.trace
  /\ bufs' = [bufs EXCEPT !.out_dir = d.bufs]
  /\ UNCHANGED engine

BuildSys ==
  BuildRan([op |-> "cmsis_dsp_sys::main", out_dir |-> bufs.out_dir],
         cmsis_dsp_sys_main(bufs.env, bufs.out_dir))

BuildPregenerated ==
  \E head \in BOOLEAN, f \in Faults :
    BuildRan([op |-> "cmsis_dsp_sys_pregenerated::main", out_dir |-> bufs.out_dir],
           main(bufs.env, bufs.out_dir, head, f))

\* something other than the build scripts removes a file of the output
\* directory
TouchOutDir ==
  \E path \in {"done", "lib", "pack"} :
    /\ file_exists(bufs.out_dir, path)
    /\ call' = [op |-> "touch", out_dir |-> bufs.out_dir]
    /\ outcome' = "ok"
    /\ ret' = None
    /\ trace' = <<>>
    /\ bufs' = [bufs EXCEPT !.out_dir[path] = "absent"]
    /\ UNCHANGED engine

NextBuild ==
  \/ BuildSys
  \/ BuildPregenerated
  \/ TouchOutDir

SpecBuild == InitBuild /\ [][NextBuild]_vars

(***************************************************************************)
(* Properties.                                                             *)
(***************************************************************************)
ComplexSizes == {16, 32, 64, 128, 256, 512, 1024, 2048, 4096}

\* the sizes the constructors' documentation gives as valid
DocumentedSizes == {32, 64, 128, 256, 512, 1024, 2048, 4096}

ComplexNew == {"FloatFft::new", "Q15Fft::new", "Q31Fft::new"}
RealNew == {"FloatRealFft::new", "Q15RealFft::new", "Q31RealFft::new"}
ComplexRun == {"FloatFft::run", "Q15Fft::run", "Q31Fft::run"}
FloatRealRun == {"FloatRealFft::run", "FloatRealFft::run_inverse"}
FixedRealRun == {"Q15RealFft::run", "Q31RealFft::run"}
RealRun == FloatRealRun \cup FixedRealRun

\* the engine type a constructor builds
Built(op) ==
  CASE op = "FloatFft::new" -> "FloatFft"
    [] op = "Q15Fft::new" -> "Q15Fft"
    [] op = "Q31Fft::new" -> "Q31Fft"
    [] op = "FloatRealFft::new" -> "FloatRealFft"
    [] op = "Q15RealFft::new" -> "Q15RealFft"
    [] op = "Q31RealFft::new" -> "Q31RealFft"

\* the configured size of the engine held, as a usize
EngineSize ==
  CASE engine.kind \in {"FloatFft", "Q15Fft", "Q31Fft"} -> Wide(engine.instance.fftLen)
    [] engine.kind = "FloatRealFft" -> Wide(engine.inst.fftLenRFFT)
    [] engine.kind \in {"Q15RealFft", "Q31RealFft"} -> engine.inst.fftLenReal

InSizes(w, sizes) == \E n \in sizes : w = Wide(n)

C2_RealConstruction ==
  /\ call.op \in RealNew =>
       IF InSizes(call.size, DocumentedSizes)
         THEN /\ ret.kind = "Ok"
              /\ engine = ret.v
              /\ engine.kind = Built(call.op)
              /\ EngineSize = call.size
         ELSE /\ ret = Err("Argument")
              /\ engine = None
  /\ engine.kind \in {"FloatRealFft", "Q15RealFft", "Q31RealFft"} =>
       InSizes(EngineSize, DocumentedSizes)
  /\ call.op \in RealRun => outcome \in {"ok", "panic"}

C2_Witness ==
  /\ call.op = "FloatRealFft::new"
  /\ call.size = Wide(16)
  /\ ret = Err("Argument")
  /\ engine = None

\* C3: as documented on FloatFft::new, Q15Fft::new and Q31Fft::new, the
\* valid sizes are 32, 64, ..., 4096 and the constructor returns an error
\* for every size that is not one of these.
C3_DocumentedSizes ==
  call.op \in ComplexNew =>
    IF InSizes(call.size, DocumentedSizes)
      THEN ret.kind = "Ok"
      ELSE ret.kind = "Err"

\* C4: a complex engine's run on a buffer whose number of samples differs
\* from the engine's size panics before the kernel is invoked, the buffer
\* unchanged; when the length equals the size the kernel is invoked exactly
\* once, on that buffer, with the engine's table.
C4_ComplexRunLength ==
  call.op \in ComplexRun =>
    IF call.bufs.data.len = EngineSize
      THEN /\ outcome = "ok"
           /\ Cardinality(NativeEvents(trace)) = 1
           /\ \A i \in NativeEvents(trace) :
                /\ trace[i].k.S = engine.instance
                /\ bufs.data = Written(call.bufs.data, trace[i].k)
                /\ \E j \in CheckEvents(trace) : j < i
      ELSE /\ outcome = "panic"
           /\ NativeEvents(trace) = {}
           /\ bufs.data = call.bufs.data

C4_Witness ==
  /\ call.op = "Q31Fft::run"
  /\ call.bufs.data.len # EngineSize
  /\ outcome = "panic"
  /\ bufs.data = call.bufs.data

\* C5: a real engine's run (and run_inverse) panics before the kernel is
\* invoked, the output buffer unchanged, when the input or the output
\* length differs from the engine's size; the kernel runs only when both
\* lengths equal the size.
C5_RealRunLength ==
  call.op \in RealRun =>
    LET both == call.bufs.input.len = EngineSize /\ call.bufs.output.len = EngineSize
    IN /\ ~both => /\ outcome = "panic"
                   /\ NativeEvents(trace) = {}
                   /\ bufs.output = call.bufs.output
       /\ NativeEvents(trace) # {} => both
       /\ \A i \in NativeEvents(trace) : Cardinality(CheckEvents(trace) \cap (1 .. i)) = 2

C5_Witness ==
  /\ call.op = "Q15RealFft::run"
  /\ call.bufs.input.len = EngineSize
  /\ call.bufs.output.len # EngineSize
  /\ outcome = "panic"
  /\ NativeEvents(trace) = {}

\* the slice lengths of the last vector operation, and the slice it writes
VecOps1 == {"abs_in_place_f32", "abs_in_place_q31", "abs_in_place_q15", "abs_in_place_q7"}
VecOps2 == {"abs_f32", "abs_q31", "abs_q15", "abs_q7", "complex_magnitude_f32"}
VecOps3 == {"add_f32", "add_q31", "add_q15", "add_q7",
            "multiply_f32", "multiply_q31", "multiply_q15", "multiply_q7"}
DotOps == {"dot_product_f32", "dot_product_q31", "dot_product_q15", "dot_product_q7"}

ArgLens ==
  CASE call.op \in VecOps1 -> {bufs.dst.len}
    [] call.op \in VecOps2 -> {bufs.src1.len, bufs.dst.len}
    [] call.op \in VecOps3 -> {bufs.src1.len, bufs.src2.len, bufs.dst.len}
    [] call.op \in DotOps -> {bufs.src1.len, bufs.src2.len}

\* the state of the slices before the call, as the caller holds them
BufsBefore ==
  CASE call.op \in VecOps1 ->
         [dst |-> call.bufs.values, src1 |-> bufs.src1, src2 |-> bufs.src2]
    [] call.op = "complex_magnitude_f32" ->
         [dst |-> call.bufs.destination, src1 |-> call.bufs.source, src2 |-> bufs.src2]
    [] call.op \in VecOps2 \ {"complex_magnitude_f32"} ->
         [dst |-> call.bufs.dst, src1 |-> call.bufs.src, src2 |-> bufs.src2]
    [] call.op \in VecOps3 ->
         [dst |-> call.bufs.dst, src1 |-> call.bufs.src1, src2 |-> call.bufs.src2]
    [] call.op \in DotOps ->
         [dst |-> bufs.dst, src1 |-> call.bufs.src1, src2 |-> call.bufs.src2]

FitsU32(w) == w.q < W16

\* the kernel was invoked once, with block size n, and wrote all of dst with it
KernelCovers(n) ==
  /\ Cardinality(NativeEvents(trace)) = 1
  /\ \A i \in NativeEvents(trace) :
       /\ trace[i].k.blockSize = n
       /\ \E j \in 1 .. (i - 1) : trace[j].ev = "check_length"
       /\ IF call.op \in DotOps
            THEN ret = Accumulator(trace[i].k) /\ bufs = BufsBefore
            ELSE /\ bufs.dst = Written(BufsBefore.dst, trace[i].k)
                 /\ bufs.dst.len = n
                 /\ bufs.src1 = BufsBefore.src1
                 /\ bufs.src2 = BufsBefore.src2

\* C6 as stated: if two of the slice lengths of a vector operation differ
\* the call panics before the kernel is invoked and nothing is written; if
\* all lengths are equal the kernel is invoked with the common length.
C6_AsStated ==
  call.op \in (VecOps2 \cup VecOps3 \cup DotOps) =>
    IF Cardinality(ArgLens) > 1
      THEN outcome = "panic" /\ NativeEvents(trace) = {} /\ bufs = BufsBefore
      ELSE outcome = "ok" /\ \A n \in ArgLens : KernelCovers(n)

\* C6: if two of the slice lengths of a vector operation differ the call
\* panics before the kernel is invoked and nothing is written; if all
\* lengths are equal and the common length fits in 32 bits, the kernel is
\* invoked once with that length and writes every index of the destination.
C6_VectorLengths ==
  call.op \in (VecOps2 \cup VecOps3 \cup DotOps) =>
    /\ Cardinality(ArgLens) > 1 =>
         outcome = "panic" /\ NativeEvents(trace) = {} /\ bufs = BufsBefore
    /\ (Cardinality(ArgLens) = 1 /\ \A n \in ArgLens : FitsU32(n)) =>
         outcome = "ok" /\ \A n \in ArgLens : KernelCovers(n)

C6_Witness ==
  /\ call.op = "add_f32"
  /\ call.bufs.src1.len = call.bufs.dst.len
  /\ call.bufs.src2.len # call.bufs.dst.len
  /\ outcome = "panic"
  /\ bufs.dst.hist = <<>>

\* C7: check_length returns the common length as a u32 without loss: for
\* equal lengths L it returns exactly L, and when L does not fit in 32 bits
\* it panics instead of returning L mod 2^32.
C7_CheckLengthExact ==
  \A i \in 1 .. Len(trace) :
    (trace[i].ev = "check_length"
       /\ \A a \in 1 .. Len(trace[i].lengths) : trace[i].lengths[a] = trace[i].lengths[1]) =>
      IF FitsU32(trace[i].lengths[1])
        THEN /\ trace[i].ok
             /\ trace[i].v = trace[i].lengths[1]
             /\ \A j \in NativeEvents(trace) : trace[j].k.blockSize = trace[i].lengths[1]
        ELSE /\ ~trace[i].ok
             /\ outcome = "panic"
             /\ NativeEvents(trace) = {}

C7_Witness ==
  /\ call.op = "complex_magnitude_f32"
  /\ call.bufs.source.len = USize(W16, 1)
  /\ call.bufs.destination.len = USize(W16, 1)
  /\ outcome = "panic"
  /\ NativeEvents(trace) = {}

\* C8: check_fft_size(size, value_count) returns normally exactly when
\* value_count, as an unbounded integer, equals size; a length equal to the
\* size only modulo 2^16 (or 2^32) is rejected.
C8_CheckFftSizeExact ==
  /\ \A i \in CheckEvents(trace) : trace[i].ok <=> (trace[i].count = trace[i].size)
  /\ \A i \in CheckEvents(trace) : ~trace[i].ok => (outcome = "panic" /\ Len(trace) = i)

C8_Witness ==
  /\ call.op = "FloatFft::run"
  /\ EngineSize = Wide(16)
  /\ call.bufs.data.len = USize(1, 16)
  /\ trace[1].ev = "check"
  /\ ~trace[1].ok
  /\ outcome = "panic"

\* C9: FloatRealFft::run and run_inverse leave the input slice unchanged:
\* after the call every element of input has its value from before the
\* call, and only output is written.
C9_FloatInputUnchanged ==
  call.op \in FloatRealRun =>
    /\ bufs.input = call.bufs.input
    /\ outcome = "ok" => bufs.output # call.bufs.output

\* C10: Q15RealFft::run and Q31RealFft::run write nothing but the output
\* buffer: the input slice holds the same values after the call as before.
C10_FixedInputUnchanged ==
  call.op \in FixedRealRun => bufs.input = call.bufs.input

OutputOf(b) == IF "output" \in DOMAIN b THEN b.output ELSE b.data

C13_StatusMapping ==
  call.op = "check_status" =>
    /\ ret.kind \in {"Ok", "Err"}
    /\ ret.kind = "Ok" <=> call.status = "ARM_MATH_SUCCESS"
    /\ ret.kind = "Ok" => ret.v = Unit /\ outcome = "ok"
    /\ ret.kind = "Err" => ret.err \in Error /\ outcome = "err"
    /\ call.status = "ARM_MATH_ARGUMENT_ERROR" => ret.err = "Argument"
    /\ call.status = "ARM_MATH_LENGTH_ERROR" => ret.err = "Length"
    /\ call.status = "ARM_MATH_NANINF" => ret.err = "NanInf"
    /\ call.status = "ARM_MATH_SINGULAR" => ret.err = "Singular"
    /\ call.status = "ARM_MATH_SIZE_MISMATCH" => ret.err = "SizeMismatch"
    /\ call.status = "ARM_MATH_TEST_FAILURE" => ret.err = "TestFailure"
    /\ call.status \notin
         {"ARM_MATH_SUCCESS", "ARM_MATH_ARGUMENT_ERROR", "ARM_MATH_LENGTH_ERROR",
          "ARM_MATH_NANINF", "ARM_MATH_SINGULAR", "ARM_MATH_SIZE_MISMATCH",
          "ARM_MATH_TEST_FAILURE"} => ret.err = "Unknown"

C13_Witness ==
  /\ call.op = "check_status"
  /\ call.status = "ARM_MATH_OTHER"
  /\ ret.kind = "Err"
  /\ ret.err = "Unknown"

\* the status the native init routine reported to the real constructor c
InitStatus(c) ==
  CASE c.op = "FloatRealFft::new" -> arm_rfft_fast_init_f32(c.size.l).status
    [] c.op = "Q15RealFft::new" ->
         arm_rfft_init_q15(c.size, DirectionFlag(c.direction),
                           OutputOrderFlag(c.output_order)).status
    [] c.op = "Q31RealFft::new" ->
         arm_rfft_init_q31(c.size, DirectionFlag(c.direction),
                           OutputOrderFlag(c.output_order)).status

\* an engine whose native instance is initialized
FullyInitialized(e) ==
  IF e.kind \in {"FloatFft", "Q15Fft", "Q31Fft"}
    THEN e.instance.kind = "arm_cfft_sR" /\ e.instance.fftLen \in ComplexSizes
    ELSE /\ e.kind \in {"FloatRealFft", "Q15RealFft", "Q31RealFft"}
         /\ e.inst # Uninit

\* C14: construction has no partial-failure state: the real constructors
\* return an engine only when the native init routine reported success and
\* otherwise return the mapped error without exposing the uninitialized
\* instance; the complex constructors return a fully initialized engine or
\* an error with nothing else changed.
C14_NoPartialConstruction ==
  /\ engine # None => FullyInitialized(engine)
  /\ call.op \in (ComplexNew \cup RealNew) =>
       /\ ret.kind \in {"Ok", "Err"}
       /\ ret.kind = "Ok" => engine = ret.v /\ FullyInitialized(ret.v)
       /\ ret.kind = "Err" =>
            /\ ret.v = None
            /\ ret.err \in Error
            /\ engine = None
            /\ trace = <<>>
            /\ DOMAIN bufs = {}
  /\ call.op \in RealNew =>
       /\ ret.kind = "Ok" <=> InitStatus(call) = "ARM_MATH_SUCCESS"
       /\ ret.kind = "Err" => ret.err = check_status(InitStatus(call)).err

C14_Witness ==
  /\ call.op = "Q31RealFft::new"
  /\ InitStatus(call) # "ARM_MATH_SUCCESS"
  /\ ret.kind = "Err"
  /\ engine = None

\* the kernel invocations of the last call were given direction d and
\* output order o
KernelGiven(d, o) ==
  /\ NativeEvents(trace) # {}
  /\ \A i \in NativeEvents(trace) :
       /\ trace[i].k.ifftFlag = DirectionFlag(d)
       /\ trace[i].k.bitReverseFlag = OutputOrderFlag(o)

\* C15: direction and output order are fixed at construction for Q15Fft
\* and per call for FloatFft and Q31Fft: every Q15Fft::run gives the kernel
\* the direction and output order given to Q15Fft::new, and every
\* FloatFft::run / Q31Fft::run gives it those of that call, whatever the
\* earlier calls on the engine were.
C15_DirectionAndOrder ==
  /\ (call.op = "Q15Fft::new" /\ ret.kind = "Ok") =>
       /\ engine.direction = call.direction
       /\ engine.output_order = call.output_order
  /\ (call.op = "Q15Fft::run" /\ outcome = "ok") =>
       KernelGiven(engine.direction, engine.output_order)
  /\ (call.op \in {"FloatFft::run", "Q31Fft::run"} /\ outcome = "ok") =>
       KernelGiven(call.direction, call.output_order)
  /\ engine.kind \in {"FloatFft", "Q31Fft"} => DOMAIN engine = {"kind", "instance"}

C15_Witness ==
  /\ call.op = "Q15Fft::run"
  /\ outcome = "ok"
  /\ engine.direction = "Inverse"
  /\ engine.output_order = "Raw"
  /\ KernelGiven("Inverse", "Raw")

\* C16: the fixed-size variants are equivalent to the general engine: for
\* every N in 16 .. 4096 and every direction and output order, fft on a
\* [Complex32; N] (and float_fft_128 for N = 128) uses the coefficient
\* table of size N and leaves the buffer as FloatFft::new(N).run leaves it.
C16_FixedSizeEquivalent ==
  call.op \in {"fft", "float_fft_128"} =>
    LET N == call.bufs.data.len.l
        general == FloatFft_new(N)
    IN /\ call.bufs.data.len.q = 0
       /\ N \in ComplexSizes
       /\ call.op = "float_fft_128" => N = 128
       /\ general.kind = "Ok"
       /\ LET d == FloatFft_run(general.v, call.bufs.data, call.direction, call.output_order)
          IN /\ d.outcome = "ok"
             /\ outcome = "ok"
             /\ bufs.data = d.bufs.data
             /\ NativeEvents(trace) # {}
             /\ \A i \in NativeEvents(trace) :
                  /\ trace[i].k.S = general.v.instance
                  /\ trace[i].k.S.fftLen = N
                  /\ \E j \in NativeEvents(d.trace) : d.trace[j].k = trace[i].k

C16_Witness ==
  /\ call.op = "fft"
  /\ call.bufs.data.len = Wide(64)
  /\ call.direction = "Inverse"
  /\ call.output_order = "Raw"
  /\ outcome = "ok"
  /\ bufs.data.hist # <<>>

\* element type and accumulator type of the fixed-point operations
ElemOf(op) ==
  CASE op \in {"add_q31", "multiply_q31", "dot_product_q31"} -> I1F31
    [] op \in {"add_q15", "multiply_q15", "dot_product_q15"} -> I1F15
    [] op = "dot_product_q7" -> I1F7

AccOf(op) ==
  CASE op = "dot_product_q31" -> I16F48
    [] op = "dot_product_q15" -> I34F30
    [] op = "dot_product_q7" -> I18F14

C19_DotProductIsSum ==
  (call.op \in DotOps /\ outcome = "ok") =>
    LET sum == SumOfProducts(call.bufs.src1.runs, call.bufs.src2.runs, 0)
        shift == IF call.op = "dot_product_f32" THEN 0
                 ELSE 2 * ElemOf(call.op).frac - AccOf(call.op).frac
    IN /\ BigMul(ret.bits, BigPow2(shift)) = sum
       /\ call.bufs.src1.runs = <<>> => ret.bits = BigOfInt(0)
       /\ (/\ call.op = "dot_product_f32"
           /\ call.bufs.src1.runs = <<Run(Wide(1), 1), Run(Wide(1), 2), Run(Wide(1), 3)>>
           /\ call.bufs.src2.runs = <<Run(Wide(1), 4), Run(Wide(1), 5), Run(Wide(1), 6)>>)
            => ret.bits = BigOfInt(32)

\* C20: the fixed-point dot-product accumulators never overflow: for every
\* pair of vectors the length check accepts, the I16F48 returned by
\* dot_product_q31 holds the sum of the products without wraparound, and
\* so do the I34F30 of dot_product_q15 and the I18F14 of dot_product_q7.
C20_AccumulatorNoOverflow ==
  (call.op \in {"dot_product_q31", "dot_product_q15", "dot_product_q7"} /\ outcome = "ok") =>
    LET T == AccOf(call.op)
        sum == SumOfProducts(call.bufs.src1.runs, call.bufs.src2.runs,
                             2 * ElemOf(call.op).frac - T.frac)
    IN /\ Fits(sum, T)
       /\ ret.bits = sum

\* the numeric representation of a complex engine type
ReprOf(kind) ==
  CASE kind = "FloatFft" -> "f32"
    [] kind = "Q15Fft" -> "q15"
    [] kind = "Q31Fft" -> "q31"

\* C23: table selection is by exact size match: the engine returned by
\* new(S) of a complex engine type references the coefficient table of
\* length S of its own numeric representation, and the size that run
\* compares with the buffer length, and hands to the kernel, is that table's.
C23_TableByExactSize ==
  /\ (call.op \in ComplexNew /\ ret.kind = "Ok") =>
       /\ call.size.q = 0
       /\ engine.instance = arm_cfft_sR(ReprOf(Built(call.op)), call.size.l)
  /\ engine.kind \in {"FloatFft", "Q15Fft", "Q31Fft"} =>
       \E S \in ComplexSizes : engine.instance = arm_cfft_sR(ReprOf(engine.kind), S)
  /\ call.op \in ComplexRun =>
       /\ CheckEvents(trace) = {1}
       /\ trace[1].size = Wide(engine.instance.fftLen)
       /\ trace[1].count = call.bufs.data.len
       /\ \A i \in NativeEvents(trace) : trace[i].k.S = engine.instance

C23_Witness ==
  /\ call.op = "Q15Fft::run"
  /\ outcome = "ok"
  /\ engine.instance = arm_cfft_sR("q15", 32)
  /\ trace[1].size = Wide(32)
  /\ bufs.data.len = Wide(32)

\* the direction and output order a successful run on a complex engine
\* asked for
AskedDirection == IF call.op = "Q15Fft::run" THEN engine.direction ELSE call.direction
AskedOrder == IF call.op = "Q15Fft::run" THEN engine.output_order ELSE call.output_order

\* C24: FloatRealFft::run always gives the kernel the flag 0 (forward) and
\* FloatRealFft::run_inverse always the flag 1 (inverse), each in exactly
\* one invocation of arm_rfft_fast_f32; and the flags the kernels are given
\* are 0 for Forward, 1 for Inverse, 0 for Raw and 1 for Standard.
C24_RealFftDirectionFlags ==
  /\ (call.op \in FloatRealRun /\ outcome = "ok") =>
       /\ Cardinality(NativeEvents(trace)) = 1
       /\ \A i \in NativeEvents(trace) :
            /\ trace[i].k.fn = "arm_rfft_fast_f32"
            /\ trace[i].k.ifftFlag = (IF call.op = "FloatRealFft::run" THEN 0 ELSE 1)
  /\ (call.op \in ComplexRun /\ outcome = "ok") =>
       /\ NativeEvents(trace) # {}
       /\ \A i \in NativeEvents(trace) :
            /\ (AskedDirection = "Forward") = (trace[i].k.ifftFlag = 0)
            /\ (AskedDirection = "Inverse") = (trace[i].k.ifftFlag = 1)
            /\ (AskedOrder = "Raw") = (trace[i].k.bitReverseFlag = 0)
            /\ (AskedOrder = "Standard") = (trace[i].k.bitReverseFlag = 1)

C24_Witness ==
  /\ call.op = "FloatRealFft::run_inverse"
  /\ outcome = "ok"
  /\ \E i \in NativeEvents(trace) : trace[i].k.ifftFlag = 1

\* the absolute value of x in the element type ty: |x|, and for the least
\* fixed-point value the greatest one
AbsOf(ty, x) ==
  LET a == IF x < 0 THEN BigNeg(BigOfInt(x)) ELSE BigOfInt(x)
  IN IF ty # "f32" /\ ~Fits(a, ElemType(ty)) THEN TypeMax(ElemType(ty)) ELSE a

\* C25: the in-place absolute values are alias-safe and agree with the
\* out-of-place ones: after abs_in_place_*(v) every v[i] is the absolute
\* value of the original v[i], which is what abs_*(src, dst) has written to
\* a separate dst for src the original v; the in-place call makes no
\* comparison of lengths, and a second application changes nothing.
C25_AbsInPlace ==
  /\ call.op = "abs_in_place" =>
       /\ \A i \in 1 .. Len(trace) :
            trace[i].ev = "check_length" => Len(trace[i].lengths) = 1
       /\ outcome = "panic" => ~TryIntoU32(call.bufs.values.len).ok
  /\ (call.op = "abs_in_place" /\ outcome = "ok") =>
       /\ bufs.src1.len = call.bufs.values.len
       /\ Len(bufs.src1.runs) = Len(call.bufs.values.runs)
       /\ \A i \in 1 .. Len(bufs.src1.runs) :
            /\ bufs.src1.runs[i].n = call.bufs.values.runs[i].n
            /\ BigOfInt(bufs.src1.runs[i].x)
                 = AbsOf(bufs.src1.elem, call.bufs.values.runs[i].x)
       /\ bufs.dst.hist # <<>> => bufs.src1.runs = bufs.dst.runs
       /\ call.bufs.values.hist # <<>> => bufs.src1.runs = call.bufs.values.runs

C25_Witness ==
  /\ call.op = "abs_in_place"
  /\ outcome = "ok"
  /\ bufs.src1.elem = "q31"
  /\ bufs.dst.hist # <<>>
  /\ Len(bufs.src1.hist) = 2
  /\ \E i \in 1 .. Len(bufs.src1.runs) : BigOfInt(bufs.src1.runs[i].x) = TypeMax(I1F31)
  /\ \E i \in 1 .. Len(bufs.src1.runs) : bufs.src1.runs[i].x = 1073741824

InTrace(e) == \E i \in 1 .. Len(trace) : trace[i] = e

\* the last run printed the line that makes cargo link a library
Linked == \E i \in 1 .. Len(trace) : trace[i][1] = "cargo:rustc-link-lib"

\* the targets the CMSIS-DSP libraries of both build scripts cover
LibraryTargets ==
  {"thumbv6m-none-eabi", "thumbv7m-none-eabi", "thumbv7em-none-eabi", "thumbv7em-none-eabihf"}

\* C22: library selection works without optional features: for the
\* targets thumbv6m, thumbv7m and thumbv7em (with and without FPU), with no
\* Cargo feature enabled, each build script selects a library and prints
\* the link lines for it; the only way the build fails is a failed
\* download.
C22_NoFeatureNeeded ==
  (bufs.env.target \in LibraryTargets /\ bufs.env.features = {}) =>
    /\ call.op = "cmsis_dsp_sys::main" => outcome = "ok" /\ Linked
    /\ call.op = "cmsis_dsp_sys_pregenerated::main" =>
         /\ outcome = "ok" => Linked
         /\ outcome = "panic" => ret.kind = "Err" \/ InTrace(<<"GET">>)

Pregenerated == call.op = "cmsis_dsp_sys_pregenerated::main"

\* download_and_link_library has returned Ok with the marker and the
\* library file present and the link lines printed
LinkedFromOutDir ==
  /\ file_exists(bufs.out_dir, "done")
  /\ file_exists(bufs.out_dir, "lib")
  /\ InTrace(<<"cargo:rustc-link-search", "OUT_DIR">>)
  /\ Linked

\* C26, as stated: whatever the output directory held and whichever step
\* failed, when download_and_link_library returns Ok or Err, a .done
\* marker that is present implies a library file that is present.
C26_AsStated ==
  (Pregenerated /\ ret.kind \in {"Ok", "Err"}) =>
    /\ file_exists(bufs.out_dir, "done") => file_exists(bufs.out_dir, "lib")
    /\ ret.kind = "Ok" => LinkedFromOutDir

\* C26: the .done marker is written only after the library has been
\* extracted: when download_and_link_library returns Ok, or Err from any
\* step but the removal of a stale marker, a marker that is present
\* implies a library file that is present, and on Ok both are present and
\* the link lines printed; when the removal of a stale marker fails, the
\* marker stays without a library file.
C26_MarkerAfterLibrary ==
  /\ (Pregenerated /\ ret.kind \in {"Ok", "Err"} /\ ret # Err("remove_done_file")) =>
       /\ file_exists(bufs.out_dir, "done") => file_exists(bufs.out_dir, "lib")
       /\ ret.kind = "Ok" => LinkedFromOutDir
  /\ (Pregenerated /\ ret = Err("remove_done_file")) =>
       /\ file_exists(call.out_dir, "done")
       /\ ~file_exists(call.out_dir, "lib")
       /\ bufs.out_dir = call.out_dir

C26_Witness ==
  /\ Pregenerated
  /\ ret = Err("io::copy lib")
  /\ file_exists(call.out_dir, "done")
  /\ ~file_exists(bufs.out_dir, "done")
  /\ bufs.out_dir.lib = "partial"

\* no request was made and nothing was extracted in the run that left t
NoDownload(t) ==
  \A i \in 1 .. Len(t) : t[i][1] \notin {"HEAD", "GET", "extract"}

LinkLines(t) == { t[i] : i \in { j \in 1 .. Len(t) : t[j][1] = "cargo:rustc-link-lib" } }

\* C27: the pregenerated build script downloads and extracts only when
\* necessary: a run that follows a run in which download_and_link_library
\* returned Ok, with the output directory as that run left it, makes no
\* request, extracts nothing and prints the same link lines; and a run
\* downloads only if the marker or the library file was missing.
C27_DownloadOnlyWhenNeeded ==
  /\ [](Pregenerated /\ InTrace(<<"GET">>) =>
          ~file_exists(call.out_dir, "done") \/ ~file_exists(call.out_dir, "lib"))
  /\ [][(/\ Pregenerated
         /\ ret.kind = "Ok"
         /\ call'.op = "cmsis_dsp_sys_pregenerated::main")
          => /\ ret'.kind = "Ok"
             /\ NoDownload(trace')
             /\ LinkLines(trace') = LinkLines(trace)
             /\ LinkLines(trace') # {}
             /\ bufs'.out_dir.done = bufs.out_dir.done
             /\ bufs'.out_dir.lib = bufs.out_dir.lib]_vars

C27_Witness ==
  /\ Pregenerated
  /\ ret.kind = "Ok"
  /\ call.out_dir = [done |-> "full", lib |-> "full", pack |-> "absent"]
  /\ bufs.out_dir = call.out_dir
  /\ NoDownload(trace)
  /\ Linked

OtherOrder(o) == IF o = "Raw" THEN "Standard" ELSE "Raw"

\* the kernel invocation of the last run, and of the same run on the same
\* engine size, buffer and direction with the other output order
KernelRun == trace[CHOOSE i \in NativeEvents(trace) : TRUE].k
KernelOther ==
  LET d == CASE call.op = "FloatFft::run" ->
                  FloatFft_run(engine, call.bufs.data, call.direction,
                               OtherOrder(call.output_order))
             [] call.op = "Q31Fft::run" ->
                  Q31Fft_run(engine, call.bufs.data, call.direction,
                             OtherOrder(call.output_order))
             [] call.op = "Q15Fft::run" ->
                  Q15Fft_run([engine EXCEPT !.output_order = OtherOrder(@)], call.bufs.data)
  IN d.trace[CHOOSE i \in NativeEvents(d.trace) : TRUE].k

\* C21: OutputOrder changes only the permutation of the results: for every
\* engine size, buffer and direction, the output of a run with
\* OutputOrder::Standard is the bit-reversal permutation of the output of
\* the run with OutputOrder::Raw, and the two hold the same values.
C21_OrderIsPermutation ==
  (call.op \in ComplexRun /\ outcome = "ok") =>
    LET N == engine.instance.fftLen
        std == IF KernelRun.bitReverseFlag = 1 THEN KernelRun ELSE KernelOther
        raw == IF KernelRun.bitReverseFlag = 1 THEN KernelOther ELSE KernelRun
    IN /\ std.bitReverseFlag = 1
       /\ raw.bitReverseFlag = 0
       /\ \A i \in 0 .. N - 1 :
            /\ BitReverse(i, Log2(N)) \in 0 .. N - 1
            /\ arm_cfft_output(std, i) = arm_cfft_output(raw, BitReverse(i, Log2(N)))
       /\ { arm_cfft_output(std, i) : i \in 0 .. N - 1 }
            = { arm_cfft_output(raw, i) : i \in 0 .. N - 1 }
       /\ Cardinality({ arm_cfft_output(raw, i) : i \in 0 .. N - 1 }) = N

C21_Witness ==
  /\ call.op = "FloatFft::run"
  /\ outcome = "ok"
  /\ engine.instance.fftLen = 16
  /\ call.direction = "Inverse"
  /\ KernelRun.bitReverseFlag = 0
  /\ arm_cfft_output(KernelRun, 1).bin = 8
  /\ arm_cfft_output(KernelOther, 1).bin = 1

====
